---- MODULE Spec2Model ----
(***************************************************************************)
(* A model of demotape's segment-timing and filter-graph construction.     *)
(*                                                                         *)
(* Times are integers in milliseconds (5 s = 5000).  A string the code     *)
(* builds by concatenation is a sequence of tokens, one per piece the      *)
(* code appends, in the order it appends them.                             *)
(***************************************************************************)
EXTENDS Integers, Sequences, FiniteSets, TLC

\* ------------------------------------------------------------------------
\* Bounds of the model
\* ------------------------------------------------------------------------

\* Longest list of segments explored.
MaxSegments == 3

\* Longest ffprobe output explored, in characters.
MaxOutputLen == 3

\* Longest narration text explored, in characters.
MaxTextLen == 5

\* Largest maxWords explored.
MaxWordsPerChunk == 2

\* The longest text given to escapeFFmpegText.
MaxEscapeLen == 3

\* The most parts of a config that use a Pro feature at once.
MaxConfigFlags == 2

\* The most segments handed to autoNarrateSegments.
MaxNarrated == 2

\* The largest chunk limit (maxChars) handed to splitScript.
MaxScriptChars == 3

\* The most consecutive stable frames asked of waitForVisualReadiness.
MaxStable == 2

\* ------------------------------------------------------------------------
\* Values
\* ------------------------------------------------------------------------

\* An absent TransitionConfig (`undefined`).
Undefined == [type |-> "undefined", duration |-> 0]

\* TransitionConfig values explored: z.enum(XFADE_TYPES), 0.1 s .. 5 s.
Transitions ==
    { [type |-> "fade", duration |-> 500],
      [type |-> "wipeleft", duration |-> 1000] }

OptTransitions == Transitions \cup {Undefined}

\* Segment durations explored: one shorter than every transition, and the
\* 5 s, 4 s, 3 s of the tests.
Durations == {300, 3000, 4000, 5000}

SeqsUpTo(S, n) == UNION { [1..k -> S] : k \in 0..n }

Max(a, b) == IF a >= b THEN a ELSE b

\* ------------------------------------------------------------------------
\* Tokens of a filter chain
\* ------------------------------------------------------------------------

Tok(kind, name, num, frac) ==
    [kind |-> kind, name |-> name, num |-> num, frac |-> frac]

\* `[${k}:v]`
InputLabel(k) == Tok("label", "v", k, <<>>)
\* `[xf${k}]`
XfLabel(k) == Tok("label", "xf", k, <<>>)
\* `[ct${k}]`
CtLabel(k) == Tok("label", "ct", k, <<>>)
\* "[mid]"
MidLabel == Tok("label", "mid", 0, <<>>)
\* `xfade=transition=${type}:duration=${duration}`
XfadeTok(type, duration) == Tok("xfade", type, duration, <<>>)
\* `:offset=${offset.toFixed(3)}`: the integer part and three decimals
OffsetTok(fixed) == Tok("offset", "", fixed.int, fixed.frac)
\* "concat=n=2:v=1"
ConcatTok == Tok("concat", "", 2, <<>>)
\* ";"
SepTok == Tok("sep", "", 0, <<>>)

\* Number.prototype.toFixed(3) of a non-negative time: the decimal digits of
\* the value rounded to the millisecond.
toFixed3(ms) ==
    [int |-> ms \div 1000,
     frac |-> << (ms \div 100) % 10, (ms \div 10) % 10, ms % 10 >>]

\* ------------------------------------------------------------------------
\* State
\* ------------------------------------------------------------------------

VARIABLES
    \* inputs of buildTransitionFilter / computeTotalDurationWithTransitions
    segmentDurations,       \* number[]
    globalTransition,       \* TransitionConfig | undefined
    perSegmentTransitions,  \* [given, items]: Array<TransitionConfig | undefined> | undefined
    \* buildTransitionFilter's locals
    pc,                     \* "start", "loop", "returned"
    loopI,                  \* i
    filterChain,
    prevLabel,
    cumulativeDuration,
    result,                 \* [defined, chain]: string | undefined
    \* computeTotalDurationWithTransitions' return value
    total,                  \* [defined, value]
    \* getSegmentDuration and its caller
    probe,                  \* [exit, output]: ffprobe's exit status and stdout
    trimSec,
    segPc,                  \* "call", "returned", "threw"
    segDuration,
    recordPc,               \* "durations", "subtitles", "rejected"
    \* splitIntoChunks
    text,                   \* string
    maxWords,
    chunks,                 \* [defined, value]: string[]
    \* buildSubtitleEntries
    subSegments,            \* SegmentResult[]: [narrationScript, duration]
    subPc,                  \* "loop", "returned"
    subI,                   \* i
    entries,                \* SrtEntry[]
    cumulativeSec,
    index,
    \* formatSrtTimestamp
    tsSeconds,
    tsOutput,
    \* escapeFFmpegText
    escInput,
    escOutput,
    \* buildOverlayFilters
    ovOverlays,
    ovInputLabel,
    ovResult,
    \* encode
    encSegments,
    encFormat,
    encOverlays,
    encAudioPath,
    encTransitions,
    encPerSegmentTransitions,
    encSegmentDurations,
    encSubtitlesSrtPath,
    encSubtitlesBurn,
    encTheme,
    encPc,
    encFilterComplex,
    encInvocations,
    encResults,
    encOutcome,
    \* enforceLicense
    licConfig,
    licKeyArg,
    licEnvKey,
    licEnvCI,
    licPc,
    proFeatures,
    \* autoNarrateSegments
    anSegments,
    anScriptsIn,
    anConfigs,
    anAutoAll,
    anI,
    anPc,
    aiCalls,
    \* record
    recConfig,
    recSegmentConfigs,
    recScripts,
    recTrimSec,
    recNarrateCalled,
    recPhase,
    recAudio,
    recDurations,
    recSubtitles,
    recEncoded,
    \* splitScript
    ssText,
    ssMaxChars,
    ssChunks,
    \* waitForVisualReadiness
    vrOpts,
    vrPc,
    vrElapsed,
    vrStable,
    vrPrev,
    vrShots,
    vrCompared,
    vrReturned,
    \* buildThemeFilter
    thOutput,
    thTheme,
    thResult

transVars == << segmentDurations, globalTransition, perSegmentTransitions, pc,
                loopI, filterChain, prevLabel, cumulativeDuration, result, total >>
durVars == << probe, trimSec, segPc, segDuration, recordPc >>
chunkVars == << text, maxWords, chunks >>
subVars == << subSegments, subPc, subI, entries, cumulativeSec, index >>
tsVars == << tsSeconds, tsOutput >>
escVars == << escInput, escOutput >>
ovVars == << ovOverlays, ovInputLabel, ovResult >>
encVars == << encSegments, encFormat, encOverlays, encAudioPath, encTransitions, encPerSegmentTransitions, encSegmentDurations, encSubtitlesSrtPath, encSubtitlesBurn, encTheme, encPc, encFilterComplex, encInvocations, encResults, encOutcome >>
licVars == << licConfig, licKeyArg, licEnvKey, licEnvCI, licPc, proFeatures >>
anVars == << anSegments, anScriptsIn, anConfigs, anAutoAll, anI, anPc, aiCalls >>
recVars == << recConfig, recSegmentConfigs, recScripts, recTrimSec, recNarrateCalled, recPhase, recAudio, recDurations, recSubtitles, recEncoded >>
ssVars == << ssText, ssMaxChars, ssChunks >>
vrVars == << vrOpts, vrPc, vrElapsed, vrStable, vrPrev, vrShots, vrCompared, vrReturned >>
thVars == << thOutput, thTheme, thResult >>
vars == << transVars, durVars, chunkVars, subVars, tsVars, escVars, ovVars, encVars, licVars, anVars, recVars, ssVars, vrVars, thVars >>

\* A component that is not running keeps its variables.
FrameOf(running) ==
    /\ IF "transitions" \in running THEN TRUE ELSE UNCHANGED transVars
    /\ IF "duration" \in running THEN TRUE ELSE UNCHANGED durVars
    /\ IF "chunks" \in running THEN TRUE ELSE UNCHANGED chunkVars
    /\ IF "subtitles" \in running THEN TRUE ELSE UNCHANGED subVars
    /\ IF "timestamp" \in running THEN TRUE ELSE UNCHANGED tsVars
    /\ IF "escape" \in running THEN TRUE ELSE UNCHANGED escVars
    /\ IF "overlays" \in running THEN TRUE ELSE UNCHANGED ovVars
    /\ IF "encode" \in running THEN TRUE ELSE UNCHANGED encVars
    /\ IF "license" \in running THEN TRUE ELSE UNCHANGED licVars
    /\ IF "autonarrate" \in running THEN TRUE ELSE UNCHANGED anVars
    /\ IF "record" \in running THEN TRUE ELSE UNCHANGED recVars
    /\ IF "script" \in running THEN TRUE ELSE UNCHANGED ssVars
    /\ IF "readiness" \in running THEN TRUE ELSE UNCHANGED vrVars
    /\ IF "theme" \in running THEN TRUE ELSE UNCHANGED thVars

Frame(running) == FrameOf({running})

segmentCount == Len(segmentDurations)

\* ------------------------------------------------------------------------
\* Components at rest: the values a component's variables hold in the
\* specifications of the other components.
\* ------------------------------------------------------------------------

TransIdle ==
    /\ segmentDurations = << >>
    /\ globalTransition = Undefined
    /\ perSegmentTransitions = [given |-> FALSE, items |-> << >>]
    /\ pc = "returned"
    /\ loopI = 0
    /\ filterChain = << >>
    /\ prevLabel = InputLabel(0)
    /\ cumulativeDuration = 0
    /\ result = [defined |-> FALSE, chain |-> << >>]
    /\ total = [defined |-> TRUE, value |-> 0]

DurIdle ==
    /\ probe = [exit |-> 0, output |-> << >>]
    /\ trimSec = 0
    /\ segPc = "returned"
    /\ segDuration = 0
    /\ recordPc = "subtitles"

ChunkIdle ==
    /\ text = << >>
    /\ maxWords = 10
    /\ chunks = [defined |-> TRUE, value |-> << >>]

SubIdle ==
    /\ subSegments = << >>
    /\ subPc = "returned"
    /\ subI = 0
    /\ entries = << >>
    /\ cumulativeSec = 0
    /\ index = 1

TimestampIdle ==
    /\ tsSeconds = 0
    /\ tsOutput = [defined |-> TRUE, value |-> << >>]

EscapeIdle ==
    /\ escInput = << >>
    /\ escOutput = [defined |-> TRUE, value |-> << >>]

OverlayIdle ==
    /\ ovOverlays = [given |-> FALSE,
                     top |-> [present |-> FALSE, text |-> << >>,
                              height |-> [given |-> FALSE, value |-> 0],
                              fontSize |-> [given |-> FALSE, value |-> 0]],
                     bottom |-> [present |-> FALSE, text |-> << >>,
                                 height |-> [given |-> FALSE, value |-> 0],
                                 fontSize |-> [given |-> FALSE, value |-> 0]]]
    /\ ovInputLabel = "scaled"
    /\ ovResult = [defined |-> TRUE,
                   value |-> [filters |-> << >>, outputLabel |-> ""]]

EncodeIdle ==
    /\ encSegments = << >>
    /\ encFormat = "mp4"
    /\ encOverlays = [given |-> FALSE,
                      top |-> [present |-> FALSE, text |-> << >>,
                               height |-> [given |-> FALSE, value |-> 0],
                               fontSize |-> [given |-> FALSE, value |-> 0]],
                      bottom |-> [present |-> FALSE, text |-> << >>,
                                  height |-> [given |-> FALSE, value |-> 0],
                                  fontSize |-> [given |-> FALSE, value |-> 0]]]
    /\ encAudioPath = FALSE
    /\ encTransitions = Undefined
    /\ encPerSegmentTransitions = [given |-> FALSE, items |-> << >>]
    /\ encSegmentDurations = [given |-> FALSE, items |-> << >>]
    /\ encSubtitlesSrtPath = FALSE
    /\ encSubtitlesBurn = FALSE
    /\ encTheme = FALSE
    /\ encPc = "returned"
    /\ encFilterComplex = << >>
    /\ encInvocations = << >>
    /\ encResults = << >>
    /\ encOutcome = [kind |-> "none", files |-> << >>]

LicenseIdle ==
    /\ licConfig = [format |-> "mp4", flags |-> {}]
    /\ licKeyArg = [given |-> FALSE, kind |-> ""]
    /\ licEnvKey = [given |-> FALSE, kind |-> ""]
    /\ licEnvCI = FALSE
    /\ licPc = "returned"
    /\ proFeatures = << >>

AutoNarrateIdle ==
    /\ anSegments = << >>
    /\ anScriptsIn = << >>
    /\ anConfigs = << >>
    /\ anAutoAll = FALSE
    /\ anI = 1
    /\ anPc = "returned"
    /\ aiCalls = << >>

RecordIdle ==
    /\ recConfig = [narration |-> "none", subtitles |-> FALSE, renderer |-> "ffmpeg"]
    /\ recSegmentConfigs = << >>
    /\ recScripts = << >>
    /\ recTrimSec = << >>
    /\ recNarrateCalled = FALSE
    /\ recPhase = "done"
    /\ recAudio = FALSE
    /\ recDurations = [defined |-> FALSE, scripts |-> << >>, trims |-> << >>, durations |-> << >>]
    /\ recSubtitles = [defined |-> FALSE, scripts |-> << >>, trims |-> << >>, durations |-> << >>]
    /\ recEncoded = [defined |-> FALSE, scripts |-> << >>, trims |-> << >>, durations |-> << >>]

ScriptSplitIdle ==
    /\ ssText = << >>
    /\ ssMaxChars = 2
    /\ ssChunks = [defined |-> TRUE, value |-> << << >> >>]

ReadinessIdle ==
    /\ vrOpts = [intervalMs |-> 200, threshold |-> [num |-> 0, den |-> 1],
                 maxWaitMs |-> 0, consecutiveStable |-> 1]
    /\ vrPc = "returned"
    /\ vrElapsed = 0
    /\ vrStable = 0
    /\ vrPrev = << >>
    /\ vrShots = << >>
    /\ vrCompared = << >>
    /\ vrReturned = [defined |-> TRUE, value |-> 0]

ThemeIdle ==
    /\ thOutput = [width |-> 1280, height |-> 800]
    /\ thTheme = [padding |-> 100, radius |-> 16, shadow |-> TRUE, windowChrome |-> FALSE]
    /\ thResult = [defined |-> FALSE, value |-> [filters |-> << >>, outputLabel |-> ""]]

IdleExceptOf(running) ==
    /\ IF "transitions" \in running THEN TRUE ELSE TransIdle
    /\ IF "duration" \in running THEN TRUE ELSE DurIdle
    /\ IF "chunks" \in running THEN TRUE ELSE ChunkIdle
    /\ IF "subtitles" \in running THEN TRUE ELSE SubIdle
    /\ IF "timestamp" \in running THEN TRUE ELSE TimestampIdle
    /\ IF "escape" \in running THEN TRUE ELSE EscapeIdle
    /\ IF "overlays" \in running THEN TRUE ELSE OverlayIdle
    /\ IF "encode" \in running THEN TRUE ELSE EncodeIdle
    /\ IF "license" \in running THEN TRUE ELSE LicenseIdle
    /\ IF "autonarrate" \in running THEN TRUE ELSE AutoNarrateIdle
    /\ IF "record" \in running THEN TRUE ELSE RecordIdle
    /\ IF "script" \in running THEN TRUE ELSE ScriptSplitIdle
    /\ IF "readiness" \in running THEN TRUE ELSE ReadinessIdle
    /\ IF "theme" \in running THEN TRUE ELSE ThemeIdle

IdleExcept(running) == IdleExceptOf({running})

\* ------------------------------------------------------------------------
\* transitions.ts
\* ------------------------------------------------------------------------

\* Variant: the global transition wins over the segment's own.
getTransitionAtGlobalFirst(i, global, perSegment) ==
    LET own == IF perSegment.given /\ (i + 1) \in DOMAIN perSegment.items
               THEN perSegment.items[i + 1]
               ELSE Undefined
    IN  IF global # Undefined THEN global ELSE own

\* perSegment?.[i] ?? global      (i counts from 0, as in the code)
getTransitionAt(i, global, perSegment) ==
    LET own == IF perSegment.given /\ (i + 1) \in DOMAIN perSegment.items
               THEN perSegment.items[i + 1]
               ELSE Undefined
    IN  IF own # Undefined THEN own ELSE global

\* globalTransition || perSegmentTransitions?.some((t) => t !== undefined)
hasAny(global, perSegment) ==
    \/ global # Undefined
    \/ /\ perSegment.given
       /\ \E k \in DOMAIN perSegment.items : perSegment.items[k] # Undefined

\* Variant: the last cross-fade writes an intermediate label too.
xfOutputLabelNeverMid(i, n) == XfLabel(i)

\* i < segmentCount - 2 ? `[xf${i}]` : "[mid]"
xfOutputLabel(i, n) == IF i < n - 2 THEN XfLabel(i) ELSE MidLabel

\* i < segmentCount - 2 ? `[ct${i}]` : "[mid]"
ctOutputLabel(i, n) == IF i < n - 2 THEN CtLabel(i) ELSE MidLabel

\* Variant: a ";" after the last operation too.
separatorAlways(i, n) == << SepTok >>

\* if (i < segmentCount - 2) filterChain += ";"
separator(i, n) == IF i < n - 2 THEN << SepTok >> ELSE << >>

\* Variant: the cross-fade starts where the merged stream ends.
xfadeOffsetNoOverlap(cumulative, duration) == cumulative

\* Math.max(0, cumulativeDuration - duration)
xfadeOffset(cumulative, duration) == Max(0, cumulative - duration)

\* if (segmentCount < 2) return undefined; if (!hasAny) return undefined
btfReturnUndefined ==
    /\ pc = "start"
    /\ segmentCount < 2 \/ ~hasAny(globalTransition, perSegmentTransitions)
    /\ pc' = "returned"
    /\ result' = [defined |-> FALSE, chain |-> << >>]
    /\ UNCHANGED << segmentDurations, globalTransition, perSegmentTransitions,
                    loopI, filterChain, prevLabel, cumulativeDuration, total >>
    /\ Frame("transitions")

\* filterChain = ""; prevLabel = "[0:v]"; cumulativeDuration = segmentDurations[0]
btfEnterLoop ==
    /\ pc = "start"
    /\ ~(segmentCount < 2)
    /\ hasAny(globalTransition, perSegmentTransitions)
    /\ pc' = "loop"
    /\ loopI' = 0
    /\ filterChain' = << >>
    /\ prevLabel' = InputLabel(0)
    /\ cumulativeDuration' = segmentDurations[1]
    /\ UNCHANGED << segmentDurations, globalTransition, perSegmentTransitions,
                    result, total >>
    /\ Frame("transitions")

\* One iteration of the loop at a boundary that has a transition.
btfXfade ==
    /\ pc = "loop"
    /\ loopI < segmentCount - 1
    /\ LET transition == getTransitionAt(loopI, globalTransition, perSegmentTransitions)
           nextInput == InputLabel(loopI + 1)
       IN  /\ transition # Undefined
           /\ LET type == transition.type
                  duration == transition.duration
                  offset == xfadeOffset(cumulativeDuration, duration)
                  outputLabel == xfOutputLabel(loopI, segmentCount)
              IN  /\ filterChain' = filterChain
                          \o << prevLabel, nextInput, XfadeTok(type, duration),
                                OffsetTok(toFixed3(offset)), outputLabel >>
                          \o separator(loopI, segmentCount)
                  /\ cumulativeDuration' =
                        IF loopI + 2 < segmentCount
                        THEN offset + segmentDurations[loopI + 2]
                        ELSE offset + duration + segmentDurations[1]
                  /\ prevLabel' = outputLabel
    /\ loopI' = loopI + 1
    /\ UNCHANGED << segmentDurations, globalTransition, perSegmentTransitions,
                    pc, result, total >>
    /\ Frame("transitions")

\* One iteration of the loop at a boundary that has no transition.
btfConcat ==
    /\ pc = "loop"
    /\ loopI < segmentCount - 1
    /\ getTransitionAt(loopI, globalTransition, perSegmentTransitions) = Undefined
    /\ LET nextInput == InputLabel(loopI + 1)
           outputLabel == ctOutputLabel(loopI, segmentCount)
       IN  /\ filterChain' = filterChain
                   \o << prevLabel, nextInput, ConcatTok, outputLabel >>
                   \o separator(loopI, segmentCount)
           /\ prevLabel' = outputLabel
    /\ cumulativeDuration' = cumulativeDuration + segmentDurations[loopI + 2]
    /\ loopI' = loopI + 1
    /\ UNCHANGED << segmentDurations, globalTransition, perSegmentTransitions,
                    pc, result, total >>
    /\ Frame("transitions")

\* return filterChain
btfReturn ==
    /\ pc = "loop"
    /\ ~(loopI < segmentCount - 1)
    /\ pc' = "returned"
    /\ result' = [defined |-> TRUE, chain |-> filterChain]
    /\ UNCHANGED << segmentDurations, globalTransition, perSegmentTransitions,
                    loopI, filterChain, prevLabel, cumulativeDuration, total >>
    /\ Frame("transitions")

\* segmentDurations.reduce((a, b) => a + b, 0)
RECURSIVE reduceSum(_)
reduceSum(durations) ==
    IF durations = << >> THEN 0
    ELSE reduceSum(SubSeq(durations, 1, Len(durations) - 1)) + durations[Len(durations)]

\* The loop of computeTotalDurationWithTransitions from boundary i on.
RECURSIVE subtractFrom(_, _, _, _, _)
subtractFrom(i, acc, durations, global, perSegment) ==
    IF i < Len(durations) - 1
    THEN LET transition == getTransitionAt(i, global, perSegment)
         IN  subtractFrom(i + 1,
                          IF transition # Undefined THEN acc - transition.duration ELSE acc,
                          durations, global, perSegment)
    ELSE acc

\* Variant: the result is not floored at zero.
computeTotalNoFloor(durations, global, perSegment) ==
    subtractFrom(0, reduceSum(durations), durations, global, perSegment)

\* total = sum; the loop; return Math.max(0, total)
computeTotalDurationWithTransitions(durations, global, perSegment) ==
    Max(0, subtractFrom(0, reduceSum(durations), durations, global, perSegment))

\* The caller computes the total for the inputs the filter was built from.
ComputeTotal ==
    /\ pc = "returned"
    /\ ~total.defined
    /\ total' = [defined |-> TRUE,
                 value |-> computeTotalDurationWithTransitions(
                               segmentDurations, globalTransition, perSegmentTransitions)]
    /\ UNCHANGED << segmentDurations, globalTransition, perSegmentTransitions, pc,
                    loopI, filterChain, prevLabel, cumulativeDuration, result >>
    /\ Frame("transitions")

\* ------------------------------------------------------------------------
\* Reading a returned chain back
\* ------------------------------------------------------------------------

Returned == pc = "returned"

\* The boundaries of the segment list, counted from 0.
Boundaries == 0 .. (segmentCount - 2)

\* The transition configured for boundary b: the entry of segment b when it
\* has one, the global transition otherwise.
Effective(b) ==
    IF perSegmentTransitions.given /\ perSegmentTransitions.items[b + 1] # Undefined
    THEN perSegmentTransitions.items[b + 1]
    ELSE globalTransition

CrossFaded(b) == Effective(b) # Undefined

\* Some transition is configured: the global one, or one on some segment.
AnyConfigured ==
    \/ globalTransition # Undefined
    \/ /\ perSegmentTransitions.given
       /\ \E k \in 1..segmentCount : perSegmentTransitions.items[k] # Undefined

\* The operations of a chain in order: two input labels, the operation, its
\* offset when it is a cross-fade, the output label, and whether a ";" follows.
RECURSIVE ParseOps(_)
ParseOps(c) ==
    IF Len(c) < 4 THEN << >>
    ELSE LET isX == c[3].kind = "xfade"
             n == IF isX THEN 5 ELSE 4
             hasSep == Len(c) > n /\ c[n + 1].kind = "sep"
             op == [in1 |-> c[1], in2 |-> c[2], kind |-> c[3].kind,
                    type |-> c[3].name, duration |-> c[3].num,
                    offset |-> IF isX THEN c[4] ELSE SepTok,
                    out |-> c[n], sep |-> hasSep]
         IN  << op >> \o ParseOps(SubSeq(c, n + 1 + (IF hasSep THEN 1 ELSE 0), Len(c)))

Ops == ParseOps(result.chain)

CountKind(c, kinds) == Cardinality({ k \in DOMAIN c : c[k].kind \in kinds })

\* The time an offset token denotes, in milliseconds.
OffsetMs(tok) == 1000 * tok.num + 100 * tok.frac[1] + 10 * tok.frac[2] + tok.frac[3]

\* The sum of the durations of segments from..to (counted from 0).
RECURSIVE SumDurations(_, _)
SumDurations(from, to) ==
    IF from > to THEN 0 ELSE segmentDurations[from + 1] + SumDurations(from + 1, to)

\* The sum of the transition durations configured at boundaries 0..b.
RECURSIVE SumOverlaps(_)
SumOverlaps(b) ==
    IF b < 0 THEN 0
    ELSE (IF CrossFaded(b) THEN Effective(b).duration ELSE 0) + SumOverlaps(b - 1)

\* The last cross-faded boundary at or below b, -1 when there is none.
RECURSIVE LastCrossFaded(_)
LastCrossFaded(b) ==
    IF b < 0 THEN -1 ELSE IF CrossFaded(b) THEN b ELSE LastCrossFaded(b - 1)

\* ------------------------------------------------------------------------
\* Claims about transitions.ts
\* ------------------------------------------------------------------------

\* C1: buildTransitionFilter returns undefined whenever segmentCount < 2 and
\* whenever no boundary 0..N-2 has an effective transition, and a chain in
\* every other case.
C1_UndefinedIffNoBoundaryTransition ==
    Returned =>
        (result.defined <=> (segmentCount >= 2 /\ \E b \in Boundaries : CrossFaded(b)))

\* C2: for N >= 2 with a transition configured, the chain has exactly N-1
\* binary operations, one per boundary in order, a cross-fade where the
\* boundary has a transition and a concat=n=2 where it has none, with exactly
\* N-2 ";" between them and none trailing.
C2_OneOperationPerBoundary ==
    (Returned /\ segmentCount >= 2 /\ AnyConfigured) =>
        /\ result.defined
        /\ CountKind(result.chain, {"xfade", "concat"}) = segmentCount - 1
        /\ Len(Ops) = segmentCount - 1
        /\ \A b \in Boundaries :
              Ops[b + 1].kind = (IF CrossFaded(b) THEN "xfade" ELSE "concat")
        /\ CountKind(result.chain, {"sep"}) = segmentCount - 2
        /\ \A b \in Boundaries : Ops[b + 1].sep <=> (b < segmentCount - 2)
        /\ result.chain[Len(result.chain)].kind # "sep"

C2_Witness ==
    /\ Returned
    /\ result.defined
    /\ segmentCount = 3
    /\ CountKind(result.chain, {"xfade"}) = 1
    /\ CountKind(result.chain, {"concat"}) = 1

\* C3: at every boundary the transition used is the entry of that segment
\* when it is defined and the global transition otherwise, in the type and
\* duration buildTransitionFilter emits and in the duration
\* computeTotalDurationWithTransitions subtracts.
C3_OverridePrecedence ==
    /\ (Returned /\ result.defined) =>
          \A b \in Boundaries :
              CrossFaded(b) =>
                  /\ Len(Ops) > b
                  /\ Ops[b + 1].type = Effective(b).type
                  /\ Ops[b + 1].duration = Effective(b).duration
    /\ total.defined =>
          total.value = Max(0, SumDurations(0, segmentCount - 1)
                               - SumOverlaps(segmentCount - 2))

C3_Witness ==
    /\ Returned
    /\ result.defined
    /\ total.defined
    /\ segmentCount = 3
    /\ globalTransition = [type |-> "fade", duration |-> 500]
    /\ perSegmentTransitions.given
    /\ perSegmentTransitions.items[1] = [type |-> "wipeleft", duration |-> 1000]
    /\ perSegmentTransitions.items[2] = Undefined
    /\ Ops[1].type = "wipeleft"
    /\ Ops[2].type = "fade"

\* C4: the operation at boundary 0 reads [0:v] and [1:v]; the operation at
\* boundary i > 0 reads the output of boundary i-1 and [i+1:v]; every
\* non-final boundary writes its own label [xf i] or [ct i]; the final
\* boundary, and only it, writes [mid].
C4_LabelChaining ==
    (Returned /\ result.defined) =>
        /\ Len(Ops) = segmentCount - 1
        /\ \A b \in Boundaries :
              /\ Ops[b + 1].in1 = (IF b = 0 THEN InputLabel(0) ELSE Ops[b].out)
              /\ Ops[b + 1].in2 = InputLabel(b + 1)
              /\ Ops[b + 1].out =
                    (IF b = segmentCount - 2 THEN MidLabel
                     ELSE IF Ops[b + 1].kind = "xfade" THEN XfLabel(b) ELSE CtLabel(b))
        /\ \A a, b \in Boundaries : a # b => Ops[a + 1].out # Ops[b + 1].out

C4_Witness ==
    /\ Returned
    /\ result.defined
    /\ segmentCount = 3
    /\ Ops[1].kind = "concat"
    /\ Ops[2].kind = "xfade"
    /\ Ops[2].in1 = CtLabel(0)
    /\ Ops[2].out = MidLabel

\* C5: the offset of every cross-faded boundary i is max(0, S_i - D_i), S_i
\* being the sum of the durations of segments 0..i minus the durations of
\* the cross-fades at the boundaries before i, also after a boundary whose
\* offset was clamped to zero.
C5_OffsetIsSumMinusOverlaps ==
    (Returned /\ result.defined) =>
        \A b \in Boundaries :
            CrossFaded(b) =>
                OffsetMs(Ops[b + 1].offset) =
                    Max(0, SumDurations(0, b) - SumOverlaps(b - 1) - Effective(b).duration)

\* C6: computeTotalDurationWithTransitions returns max(0, sum of durations
\* minus the effective transition duration of every boundary): sum - D*(N-1)
\* floored at zero for a uniform global transition D, the single duration for
\* a one-element list, 0 for the empty list, and never a negative value.
C6_TotalDuration ==
    total.defined =>
        /\ total.value = Max(0, SumDurations(0, segmentCount - 1)
                                - SumOverlaps(segmentCount - 2))
        /\ total.value >= 0
        /\ segmentCount = 0 => total.value = 0
        /\ segmentCount = 1 => total.value = segmentDurations[1]
        /\ (segmentCount >= 2 /\ globalTransition # Undefined
              /\ ~perSegmentTransitions.given) =>
              total.value = Max(0, SumDurations(0, segmentCount - 1)
                                   - globalTransition.duration * (segmentCount - 1))

C6_Witness ==
    /\ total.defined
    /\ segmentCount = 2
    /\ globalTransition # Undefined
    /\ ~perSegmentTransitions.given
    /\ SumDurations(0, 1) < globalTransition.duration
    /\ total.value = 0

\* C7: with at least one cross-faded boundary, the total of
\* computeTotalDurationWithTransitions equals the offset buildTransitionFilter
\* emits at the last cross-faded boundary plus the durations of the segments
\* after that boundary, also when a segment is shorter than its transition.
C7_TotalAgreesWithOffsets ==
    (Returned /\ result.defined /\ total.defined
       /\ LastCrossFaded(segmentCount - 2) >= 0) =>
        LET last == LastCrossFaded(segmentCount - 2)
        IN  total.value = OffsetMs(Ops[last + 1].offset)
                          + SumDurations(last + 1, segmentCount - 1)

\* The scenario of C8: durations [5, 4, 3] s, global transition fade 0.5 s.
Scenario543 ==
    /\ segmentDurations = << 5000, 4000, 3000 >>
    /\ globalTransition = [type |-> "fade", duration |-> 500]
    /\ ~perSegmentTransitions.given

\* C8 as stated: for durations [5,4,3] and the global transition fade 0.5,
\* there are exactly 2 cross-fades, the total is 11, and the offset of the
\* first cross-fade is 4.000.
C8_ScenarioAsStated ==
    (Scenario543 /\ Returned /\ total.defined) =>
        /\ CountKind(result.chain, {"xfade"}) = 2
        /\ total.value = 11000
        /\ Ops[1].offset = OffsetTok([int |-> 4, frac |-> << 0, 0, 0 >>])

\* C8 amended: for durations [5,4,3] and the global transition fade 0.5,
\* there are exactly 2 cross-fades, the total is 11, and the offset of the
\* first cross-fade is 4.500.
C8_ScenarioAmended ==
    (Scenario543 /\ Returned /\ total.defined) =>
        /\ result.defined
        /\ CountKind(result.chain, {"xfade"}) = 2
        /\ CountKind(result.chain, {"concat"}) = 0
        /\ total.value = 11000
        /\ Ops[1].offset = OffsetTok([int |-> 4, frac |-> << 5, 0, 0 >>])

C8_Witness == Scenario543 /\ Returned /\ result.defined /\ total.defined

\* ------------------------------------------------------------------------
\* subtitles.ts: getSegmentDuration, and its call in record()
\* ------------------------------------------------------------------------

\* Characters of ffprobe's stdout explored: digits, the decimal point, a
\* letter (ffprobe prints "N/A" for an unknown duration) and white space.
Chars == {"1", "5", ".", "N", " "}

Digits == {"0", "1", "2", "3", "4", "5", "6", "7", "8", "9"}

DigitValue(c) ==
    CASE c = "0" -> 0 [] c = "1" -> 1 [] c = "2" -> 2 [] c = "3" -> 3
      [] c = "4" -> 4 [] c = "5" -> 5 [] c = "6" -> 6 [] c = "7" -> 7
      [] c = "8" -> 8 [] c = "9" -> 9

Tail0(s) == SubSeq(s, 2, Len(s))
Front(s) == SubSeq(s, 1, Len(s) - 1)

\* String.prototype.trim(): white space off both ends.
RECURSIVE trimStart(_)
trimStart(s) == IF s # << >> /\ s[1] = " " THEN trimStart(Tail0(s)) ELSE s

RECURSIVE trimEnd(_)
trimEnd(s) == IF s # << >> /\ s[Len(s)] = " " THEN trimEnd(Front(s)) ELSE s

trim(s) == trimEnd(trimStart(s))

\* The number of digits s starts with.
RECURSIVE leadingDigits(_)
leadingDigits(s) ==
    IF s # << >> /\ s[1] \in Digits THEN 1 + leadingDigits(Tail0(s)) ELSE 0

\* The value of a digit string as an integer.
RECURSIVE digitsValue(_)
digitsValue(s) ==
    IF s = << >> THEN 0 ELSE 10 * digitsValue(Front(s)) + DigitValue(s[Len(s)])

\* The value in milliseconds of the decimals after the point (three
\* decimals are a millisecond; the outputs explored carry no more).
fractionMs(s) ==
    (IF Len(s) >= 1 THEN 100 * DigitValue(s[1]) ELSE 0)
    + (IF Len(s) >= 2 THEN 10 * DigitValue(s[2]) ELSE 0)
    + (IF Len(s) >= 3 THEN DigitValue(s[3]) ELSE 0)

\* parseFloat: skips leading white space, reads the longest prefix of the
\* form digits [ "." digits ] or "." digits, and is NaN when there is none.
parseFloat(str) ==
    LET s == trimStart(str)
        a == leadingDigits(s)
        rest == SubSeq(s, a + 1, Len(s))
        hasPoint == rest # << >> /\ rest[1] = "."
        b == IF hasPoint THEN leadingDigits(Tail0(rest)) ELSE 0
    IN  IF a + b = 0
        THEN [nan |-> TRUE, value |-> 0]
        ELSE [nan |-> FALSE,
              value |-> 1000 * digitsValue(SubSeq(s, 1, a))
                        + fractionMs(SubSeq(rest, 2, b + 1))]

\* x || 0 for a number x: NaN and 0 are falsy.
orZero(x) == IF x.nan THEN 0 ELSE x.value

\* Variant: the difference is not floored at zero.
getSegmentDurationNoClamp(output, trimOffset) ==
    orZero(parseFloat(trim(output))) - trimOffset

\* The value getSegmentDuration returns for ffprobe's stdout `output`:
\* total = parseFloat(output.trim()) || 0; Math.max(0, total - trimSec)
getSegmentDuration(output, trimOffset) ==
    LET totalSec == orZero(parseFloat(trim(output)))
    IN  Max(0, totalSec - trimOffset)

\* execSync returns ffprobe's stdout when it exits with status 0.
gsdReturn ==
    /\ segPc = "call"
    /\ probe.exit = 0
    /\ segDuration' = getSegmentDuration(probe.output, trimSec)
    /\ segPc' = "returned"
    /\ UNCHANGED << probe, trimSec, recordPc >>
    /\ Frame("duration")

\* execSync throws when the command exits with a non-zero status; nothing
\* in getSegmentDuration catches it.
gsdThrow ==
    /\ segPc = "call"
    /\ probe.exit # 0
    /\ segPc' = "threw"
    /\ UNCHANGED << probe, trimSec, segDuration, recordPc >>
    /\ Frame("duration")

\* record(): step 6.5 has its durations and goes on to step 6.6.
recordContinue ==
    /\ recordPc = "durations"
    /\ segPc = "returned"
    /\ recordPc' = "subtitles"
    /\ UNCHANGED << probe, trimSec, segPc, segDuration >>
    /\ Frame("duration")

\* record(): the exception of step 6.5 is not caught; the promise rejects.
recordReject ==
    /\ recordPc = "durations"
    /\ segPc = "threw"
    /\ recordPc' = "rejected"
    /\ UNCHANGED << probe, trimSec, segPc, segDuration >>
    /\ Frame("duration")

\* ------------------------------------------------------------------------
\* Claims about getSegmentDuration
\* ------------------------------------------------------------------------

\* The raw duration the probe reported (0 when its output is no number).
RawDuration == orZero(parseFloat(trim(probe.output)))

NonNumeric == parseFloat(trim(probe.output)).nan

\* C9: getSegmentDuration returns max(0, raw - trim): raw - trim whenever
\* raw >= trim >= 0, 0 whenever trim >= raw, and never a negative value.
C9_DurationIsRawMinusTrimFloored ==
    segPc = "returned" =>
        /\ (RawDuration >= trimSec /\ trimSec >= 0) => segDuration = RawDuration - trimSec
        /\ trimSec >= RawDuration => segDuration = 0
        /\ segDuration >= 0
        /\ (probe.output = << "1", ".", "5" >> /\ trimSec = 500) => segDuration = 1000
        /\ (probe.output = << "5", " " >> /\ trimSec = 1500) => segDuration = 3500

C9_Witness ==
    /\ segPc = "returned"
    /\ probe.output = << "1", ".", "5" >>
    /\ trimSec = 5000
    /\ RawDuration = 1500
    /\ segDuration = 0

\* C10: when the probe command fails or its output is not a number,
\* getSegmentDuration returns 0 and does not raise, and record() goes on.
C10_ProbeFailureYieldsZero ==
    (segPc # "call" /\ (probe.exit # 0 \/ NonNumeric)) =>
        /\ segPc = "returned"
        /\ segDuration = 0
        /\ recordPc # "rejected"

\* C11: a probe failure, the recording being inaccessible or the probe's
\* output malformed, reaches the caller of getSegmentDuration as an error;
\* it is never turned into a duration of 0.
C11_ProbeFailureIsAnError ==
    (segPc # "call" /\ (probe.exit # 0 \/ NonNumeric)) => segPc = "threw"

\* ------------------------------------------------------------------------
\* subtitles.ts: splitIntoChunks
\* ------------------------------------------------------------------------

\* Characters of a narration script explored: two letters, a
\* sentence-ending mark and white space.
ScriptChars == {"a", "b", ".", " "}

\* [.!?]
SentenceEnd == {".", "!", "?"}

\* The number of leading characters of s that are in (inside = TRUE) or
\* not in (inside = FALSE) the class.
RECURSIVE leadingRun(_, _, _)
leadingRun(s, class, inside) ==
    IF s # << >> /\ ((s[1] \in class) <=> inside)
    THEN 1 + leadingRun(Tail0(s), class, inside)
    ELSE 0

\* text.match(/[^.!?]+[.!?]+/g): from left to right, a longest run of
\* characters that end no sentence followed by a longest run of marks; marks
\* with no such run before them, and a run that reaches the end of the text
\* with no mark after it, are in no match.
RECURSIVE matchSentences(_)
matchSentences(s) ==
    LET s1 == SubSeq(s, leadingRun(s, SentenceEnd, TRUE) + 1, Len(s))
        a == leadingRun(s1, SentenceEnd, FALSE)
        b == leadingRun(SubSeq(s1, a + 1, Len(s1)), SentenceEnd, TRUE)
    IN  IF a = 0 \/ b = 0
        THEN << >>
        ELSE << SubSeq(s1, 1, a + b) >> \o matchSentences(SubSeq(s1, a + b + 1, Len(s1)))

\* str.split(/\s+/): the pieces between runs of white space; the empty
\* string gives one empty piece, and white space at an end an empty piece.
RECURSIVE splitWhitespace(_)
splitWhitespace(s) ==
    LET a == leadingRun(s, {" "}, FALSE)
        rest == SubSeq(s, a + 1, Len(s))
        w == leadingRun(rest, {" "}, TRUE)
    IN  IF w = 0
        THEN << s >>
        ELSE << SubSeq(s, 1, a) >> \o splitWhitespace(SubSeq(rest, w + 1, Len(rest)))

\* words.join(" ")
RECURSIVE joinSpace(_)
joinSpace(words) ==
    IF words = << >> THEN << >>
    ELSE IF Len(words) = 1 THEN words[1]
    ELSE words[1] \o << " " >> \o joinSpace(Tail0(words))

\* for (let i = 0; i < words.length; i += maxWords)
\*   { chunk = words.slice(i, i + maxWords).join(" "); if (chunk) chunks.push(chunk) }
RECURSIVE sliceChunks(_, _, _)
sliceChunks(words, i, max) ==
    IF i < Len(words)
    THEN LET hi == IF i + max < Len(words) THEN i + max ELSE Len(words)
             chunk == joinSpace(SubSeq(words, i + 1, hi))
         IN  (IF chunk # << >> THEN << chunk >> ELSE << >>)
             \o sliceChunks(words, i + max, max)
    ELSE << >>

\* The chunks one sentence contributes.
sentenceChunks(sentence, max) ==
    LET words == splitWhitespace(trim(sentence))
    IN  IF Len(words) <= max
        THEN << joinSpace(words) >>
        ELSE sliceChunks(words, 0, max)

RECURSIVE allSentenceChunks(_, _)
allSentenceChunks(sentences, max) ==
    IF sentences = << >> THEN << >>
    ELSE sentenceChunks(sentences[1], max) \o allSentenceChunks(Tail0(sentences), max)

\* chunks.filter((c) => c.length > 0)
RECURSIVE filterNonEmpty(_)
filterNonEmpty(cs) ==
    IF cs = << >> THEN << >>
    ELSE (IF Len(cs[1]) > 0 THEN << cs[1] >> ELSE << >>) \o filterNonEmpty(Tail0(cs))

splitIntoChunks(str, max) ==
    LET matched == matchSentences(str)
        sentences == IF matched = << >> THEN << str >> ELSE matched
    IN  filterNonEmpty(allSentenceChunks(sentences, max))

\* A call of splitIntoChunks(text, maxWords).
splitIntoChunksCall ==
    /\ ~chunks.defined
    /\ chunks' = [defined |-> TRUE, value |-> splitIntoChunks(text, maxWords)]
    /\ UNCHANGED << text, maxWords >>
    /\ Frame("chunks")

\* ------------------------------------------------------------------------
\* Claims about splitIntoChunks
\* ------------------------------------------------------------------------

\* The white-space separated words of a string, in order.
RECURSIVE WordsOf(_)
WordsOf(s) ==
    LET skip == leadingRun(s, {" "}, TRUE)
        s1 == SubSeq(s, skip + 1, Len(s))
        a == leadingRun(s1, {" "}, FALSE)
    IN  IF a = 0 THEN << >>
        ELSE << SubSeq(s1, 1, a) >> \o WordsOf(SubSeq(s1, a + 1, Len(s1)))

RECURSIVE WordsOfAll(_)
WordsOfAll(cs) ==
    IF cs = << >> THEN << >> ELSE WordsOf(cs[1]) \o WordsOfAll(Tail0(cs))

\* C12: for every text and maxWords >= 1 the chunks are an order-preserving
\* partition of the text's words: every chunk has between 1 and maxWords
\* words, and the chunks' words in order are the words of the text, those
\* after the last sentence-ending mark included.
C12_ChunksPartitionWords ==
    chunks.defined =>
        /\ \A k \in DOMAIN chunks.value :
              /\ Len(WordsOf(chunks.value[k])) >= 1
              /\ Len(WordsOf(chunks.value[k])) <= maxWords
        /\ WordsOfAll(chunks.value) = WordsOf(text)

\* ------------------------------------------------------------------------
\* subtitles.ts: buildSubtitleEntries
\* ------------------------------------------------------------------------

\* maxWords = 10
DefaultMaxWords == 10

\* A time that is a quotient of two integers (duration / chunks.length).
Rat(num, den) == [num |-> num, den |-> den]

\* Variant: the times of an entry count from the start of its segment.
srtEntryFromSegmentStart(idx, cumulative, j, n, duration, chunk) ==
    [index |-> idx,
     startSec |-> Rat(j * duration, n),
     endSec |-> Rat((j + 1) * duration, n),
     text |-> chunk]

\* Variant: the index of an entry counts from 1 in every segment.
srtEntryIndexPerSegment(idx, cumulative, j, n, duration, chunk) ==
    [index |-> j + 1,
     startSec |-> Rat(cumulative * n + j * duration, n),
     endSec |-> Rat(cumulative * n + (j + 1) * duration, n),
     text |-> chunk]

\* { index, startSec: cumulativeSec + j * chunkDuration,
\*   endSec: cumulativeSec + (j + 1) * chunkDuration, text: chunks[j] }
\* with chunkDuration = duration / n
srtEntry(idx, cumulative, j, n, duration, chunk) ==
    [index |-> idx,
     startSec |-> Rat(cumulative * n + j * duration, n),
     endSec |-> Rat(cumulative * n + (j + 1) * duration, n),
     text |-> chunk]

\* The entries the inner loop pushes for one segment; index++ after each.
segmentEntries(chs, idx, cumulative, duration) ==
    [ j \in 1..Len(chs) |->
        srtEntry(idx + (j - 1), cumulative, j - 1, Len(chs), duration, chs[j]) ]

\* One iteration of the loop over the segments.  The empty script stands
\* for an absent one: both are falsy.
bseSegment ==
    /\ subPc = "loop"
    /\ subI < Len(subSegments)
    /\ LET seg == subSegments[subI + 1]
           duration == seg.duration
           chs == IF seg.narrationScript # << >>
                  THEN splitIntoChunks(seg.narrationScript, DefaultMaxWords)
                  ELSE << >>
       IN  /\ entries' = entries \o segmentEntries(chs, index, cumulativeSec, duration)
           /\ index' = index + Len(chs)
           /\ cumulativeSec' = cumulativeSec + duration
    /\ subI' = subI + 1
    /\ UNCHANGED << subSegments, subPc >>
    /\ Frame("subtitles")

\* return entries
bseReturn ==
    /\ subPc = "loop"
    /\ ~(subI < Len(subSegments))
    /\ subPc' = "returned"
    /\ UNCHANGED << subSegments, subI, entries, cumulativeSec, index >>
    /\ Frame("subtitles")

\* ------------------------------------------------------------------------
\* Claims about buildSubtitleEntries
\* ------------------------------------------------------------------------

RatEq(x, y) == x.num * y.den = y.num * x.den
RatLeq(x, y) == x.num * y.den <= y.num * x.den

\* A script with no character other than white space.
Blank(script) == \A k \in DOMAIN script : script[k] = " "

\* The number of chunks of segment k (counted from 1).
ChunkCount(k) ==
    IF subSegments[k].narrationScript = << >> THEN 0
    ELSE Len(splitIntoChunks(subSegments[k].narrationScript, DefaultMaxWords))

\* The number of entries of the segments before segment k.
RECURSIVE EntriesBefore(_)
EntriesBefore(k) == IF k <= 1 THEN 0 ELSE EntriesBefore(k - 1) + ChunkCount(k - 1)

\* The time at which segment k starts: the durations before it.
RECURSIVE CumulativeStart(_)
CumulativeStart(k) ==
    IF k <= 1 THEN 0 ELSE CumulativeStart(k - 1) + subSegments[k - 1].duration

\* The entries of segment k are contiguous, start at the segment's start
\* and end at its end.
SpansSegment(k) ==
    LET first == EntriesBefore(k) + 1
        last == EntriesBefore(k) + ChunkCount(k)
    IN  /\ last >= first
        /\ last <= Len(entries)
        /\ RatEq(entries[first].startSec, Rat(CumulativeStart(k), 1))
        /\ RatEq(entries[last].endSec,
                 Rat(CumulativeStart(k) + subSegments[k].duration, 1))
        /\ \A e \in first..last : RatLeq(entries[e].startSec, entries[e].endSec)
        /\ \A e \in first..(last - 1) :
              RatEq(entries[e].endSec, entries[e + 1].startSec)

\* The time cursor is the sum of the durations of the segments passed, and
\* the entries are those of the segments passed.
CursorAdvancesByDuration ==
    /\ cumulativeSec = CumulativeStart(subI + 1)
    /\ Len(entries) = EntriesBefore(subI + 1)

C14_IndicesSequential ==
    /\ \A e \in DOMAIN entries : entries[e].index = e
    /\ index = Len(entries) + 1

C14_Witness ==
    /\ subPc = "returned"
    /\ Len(subSegments) = 3
    /\ ChunkCount(1) = 3
    /\ ChunkCount(2) = 0
    /\ ChunkCount(3) = 1
    /\ Len(entries) = 4
    /\ entries[4].index = 4

\* ------------------------------------------------------------------------
\* subtitles.ts: formatSrtTimestamp
\* ------------------------------------------------------------------------

\* The argument is a number of seconds; the model counts it in units of a
\* tenth of a millisecond, so that Math.round has something to round.
UnitsPerSecond == 10000
UnitsPerMs == 10

DigitChar(d) ==
    CASE d = 0 -> "0" [] d = 1 -> "1" [] d = 2 -> "2" [] d = 3 -> "3"
      [] d = 4 -> "4" [] d = 5 -> "5" [] d = 6 -> "6" [] d = 7 -> "7"
      [] d = 8 -> "8" [] d = 9 -> "9"

\* String(n) for a natural number n.
RECURSIVE toString(_)
toString(n) ==
    IF n < 10 THEN << DigitChar(n) >>
    ELSE toString(n \div 10) \o << DigitChar(n % 10) >>

\* s.padStart(width, "0")
RECURSIVE padStart(_, _)
padStart(s, width) == IF Len(s) >= width THEN s ELSE padStart(<< "0" >> \o s, width)

\* Math.round of a number of milliseconds given in tenths: half goes up.
roundMs(tenths) == (tenths + 5) \div UnitsPerMs

formatSrtTimestamp(seconds) ==
    LET h == (seconds \div UnitsPerSecond) \div 3600
        m == ((seconds \div UnitsPerSecond) % 3600) \div 60
        s == (seconds \div UnitsPerSecond) % 60
        ms == roundMs(seconds % UnitsPerSecond)
    IN  padStart(toString(h), 2) \o << ":" >> \o
        padStart(toString(m), 2) \o << ":" >> \o
        padStart(toString(s), 2) \o << "," >> \o
        padStart(toString(ms), 3)

formatSrtTimestampCall ==
    /\ ~tsOutput.defined
    /\ tsOutput' = [defined |-> TRUE, value |-> formatSrtTimestamp(tsSeconds)]
    /\ UNCHANGED tsSeconds
    /\ Frame("timestamp")

\* ------------------------------------------------------------------------
\* Claims about formatSrtTimestamp
\* ------------------------------------------------------------------------

\* The position of the first occurrence of c in s, 0 when there is none.
FirstIndex(s, c) ==
    IF \E k \in DOMAIN s : s[k] = c
    THEN CHOOSE k \in DOMAIN s : s[k] = c /\ \A l \in 1..(k - 1) : s[l] # c
    ELSE 0

AllDigits(s) == \A k \in DOMAIN s : s[k] \in Digits

\* The fields of a timestamp: hours and the rest up to the comma, cut at
\* the colons, and the milliseconds after the comma.
TimestampFields(out) ==
    LET comma == FirstIndex(out, ",")
        clock == SubSeq(out, 1, comma - 1)
        colon1 == FirstIndex(clock, ":")
        rest == SubSeq(clock, colon1 + 1, Len(clock))
        colon2 == FirstIndex(rest, ":")
    IN  [ok |-> comma > 0 /\ colon1 > 0 /\ colon2 > 0,
         hh |-> SubSeq(clock, 1, colon1 - 1),
         mm |-> SubSeq(rest, 1, colon2 - 1),
         ss |-> SubSeq(rest, colon2 + 1, Len(rest)),
         mmm |-> SubSeq(out, comma + 1, Len(out))]

\* The time a timestamp denotes, in milliseconds.
TimestampMs(f) ==
    digitsValue(f.hh) * 3600000 + digitsValue(f.mm) * 60000
        + digitsValue(f.ss) * 1000 + digitsValue(f.mmm)

\* C15: the result has the form HH:MM:SS,mmm, the millisecond field has
\* exactly three digits, seconds and minutes are in 00..59, and the time
\* denoted is the argument rounded to the nearest millisecond.
C15_TimestampWellFormed ==
    tsOutput.defined =>
        LET f == TimestampFields(tsOutput.value)
        IN  /\ f.ok
            /\ AllDigits(f.hh) /\ AllDigits(f.mm) /\ AllDigits(f.ss) /\ AllDigits(f.mmm)
            /\ Len(f.hh) = 2 /\ Len(f.mm) = 2 /\ Len(f.ss) = 2
            /\ Len(f.mmm) = 3
            /\ digitsValue(f.mm) <= 59
            /\ digitsValue(f.ss) <= 59
            /\ TimestampMs(f) = (tsSeconds + 5) \div 10

\* ------------------------------------------------------------------------
\* overlays.ts: escapeFFmpegText
\* ------------------------------------------------------------------------

\* "’", the right single quotation mark
RightQuote == "U+2019"

\* str.replace(/c/g, rep): every occurrence of the character c becomes rep.
RECURSIVE replaceAll(_, _, _)
replaceAll(str, c, rep) ==
    IF str = << >> THEN << >>
    ELSE (IF str[1] = c THEN rep ELSE << str[1] >>) \o replaceAll(Tail0(str), c, rep)

\* Variant: the backslashes are replaced last, those of the escapes included.
escapeFFmpegTextBackslashLast(str) ==
    LET r1 == replaceAll(str, "'", << RightQuote >>)
        r2 == replaceAll(r1, ":", << "\\", ":" >>)
        r3 == replaceAll(r2, "[", << "\\", "[" >>)
        r4 == replaceAll(r3, "]", << "\\", "]" >>)
        r5 == replaceAll(r4, ";", << "\\", ";" >>)
        r6 == replaceAll(r5, "%", << "%", "%" >>)
    IN  replaceAll(r6, "\\", << "\\", "\\", "\\", "\\" >>)

\* The seven replacements, in the order of the source.
escapeFFmpegText(str) ==
    LET r1 == replaceAll(str, "\\", << "\\", "\\", "\\", "\\" >>)
        r2 == replaceAll(r1, "'", << RightQuote >>)
        r3 == replaceAll(r2, ":", << "\\", ":" >>)
        r4 == replaceAll(r3, "[", << "\\", "[" >>)
        r5 == replaceAll(r4, "]", << "\\", "]" >>)
        r6 == replaceAll(r5, ";", << "\\", ";" >>)
    IN  replaceAll(r6, "%", << "%", "%" >>)

escapeFFmpegTextCall ==
    /\ ~escOutput.defined
    /\ escOutput' = [defined |-> TRUE, value |-> escapeFFmpegText(escInput)]
    /\ UNCHANGED escInput
    /\ Frame("escape")

\* ------------------------------------------------------------------------
\* Claims about escapeFFmpegText
\* ------------------------------------------------------------------------

\* The characters that end or split a filter argument.
Structural == {":", "[", "]", ";"}

\* The number of backslashes that stand immediately before position k.
RECURSIVE BackslashRun(_, _)
BackslashRun(out, k) ==
    IF k > 1 /\ out[k - 1] = "\\" THEN 1 + BackslashRun(out, k - 1) ELSE 0

\* Reading an escaped text back: four backslashes are a backslash, a
\* backslash and a structural character are that character, two percent
\* signs are a percent sign, every other character is itself.  A bare
\* structural character, percent sign or backslash cannot be read.
RECURSIVE Unescape(_)
Unescape(out) ==
    IF out = << >> THEN [ok |-> TRUE, value |-> << >>]
    ELSE LET c == out[1]
             n == IF c = "\\" /\ Len(out) >= 4 /\ out[2] = "\\" /\ out[3] = "\\" /\ out[4] = "\\"
                     THEN 4
                  ELSE IF c = "\\" /\ Len(out) >= 2 /\ out[2] \in Structural THEN 2
                  ELSE IF c = "%" /\ Len(out) >= 2 /\ out[2] = "%" THEN 2
                  ELSE IF c \in Structural \cup {"\\", "%"} THEN 0
                  ELSE 1
             rest == Unescape(SubSeq(out, n + 1, Len(out)))
         IN  IF n = 0 THEN [ok |-> FALSE, value |-> << >>]
             ELSE [ok |-> rest.ok,
                   value |-> << (IF n = 2 THEN out[2] ELSE c) >> \o rest.value]

\* The text with every apostrophe replaced by the typographic quote.
Requoted(str) == [k \in DOMAIN str |-> IF str[k] = "'" THEN RightQuote ELSE str[k]]

\* C17: the escaped text has no apostrophe; every ":", "[", "]" and ";" in
\* it stands after an escaping backslash; backslashes and percent signs are
\* escaped; every other character is unchanged and in order.
C17_EscapedTextIsInert ==
    escOutput.defined =>
        LET out == escOutput.value
        IN  /\ \A k \in DOMAIN out : out[k] # "'"
            /\ \A k \in DOMAIN out :
                  out[k] \in Structural => BackslashRun(out, k) % 2 = 1
            /\ Unescape(out) = [ok |-> TRUE, value |-> Requoted(escInput)]

C17_Witness ==
    /\ escInput = << "\\", ":", "'" >>
    /\ escOutput.defined
    /\ escOutput.value = << "\\", "\\", "\\", "\\", "\\", ":", RightQuote >>

\* ------------------------------------------------------------------------
\* overlays.ts: buildOverlayFilters
\* ------------------------------------------------------------------------

\* `[${name}]`
Label(name) == Tok("label", name, 0, << >>)
\* "null"
NullTok == Tok("null", "", 0, << >>)
\* `drawbox=x=0:y=...:w=iw:h=${h}:color=black@0.65:t=fill`
DrawboxTok(band, h) == Tok("drawbox", band, h, << >>)
\* `drawtext=text='${escaped}':fontsize=${fontSize}:fontcolor=white`
DrawtextTok(band, escaped, fontSize) == Tok("drawtext", band, fontSize, escaped)
\* `:x=(w-text_w)/2:y=...${halfH}-text_h/2`
TextYTok(band, halfH) == Tok("y", band, halfH, << >>)

\* An optional number that is not given.
NotGiven == [given |-> FALSE, value |-> 0]

\* overlays.top / overlays.bottom when it is not set.
NoBand == [present |-> FALSE, text |-> << >>, height |-> NotGiven, fontSize |-> NotGiven]

\* overlays when it is undefined.
NoOverlays == [given |-> FALSE, top |-> NoBand, bottom |-> NoBand]

\* opt ?? fallback
orDefault(opt, fallback) == IF opt.given THEN opt.value ELSE fallback

\* Math.round(h / 2) of a natural number
halfRounded(h) == (h + 1) \div 2

\* The two operations of the top band.
topFilters(currentLabel, band) ==
    LET h == orDefault(band.height, 120)
        fontSize == orDefault(band.fontSize, 42)
        halfH == halfRounded(h)
    IN  << SepTok, Label(currentLabel), DrawboxTok("top", h), Label("top1"),
           SepTok, Label("top1"),
           DrawtextTok("top", escapeFFmpegText(band.text), fontSize),
           TextYTok("top", halfH), Label("top2") >>

\* The two operations of the bottom band.
bottomFilters(currentLabel, band) ==
    LET h == orDefault(band.height, 100)
        fontSize == orDefault(band.fontSize, 32)
        halfH == halfRounded(h)
    IN  << SepTok, Label(currentLabel), DrawboxTok("bottom", h), Label("bot1"),
           SepTok, Label("bot1"),
           DrawtextTok("bottom", escapeFFmpegText(band.text), fontSize),
           TextYTok("bottom", halfH), Label("outv") >>

\* Variant: the label at the end of the top band is left as it is.
renameTrailingNever(filters, from, to) == filters

\* filters.replace(/\[top2\]$/, "[outv]")
renameTrailing(filters, from, to) ==
    IF filters # << >> /\ filters[Len(filters)].kind = "label"
          /\ filters[Len(filters)].name = from
    THEN Front(filters) \o << Label(to) >>
    ELSE filters

buildOverlayFilters(overlays, inputLabel) ==
    IF ~overlays.given \/ (~overlays.top.present /\ ~overlays.bottom.present)
    THEN [filters |-> << SepTok, Label(inputLabel), NullTok, Label("outv") >>,
          outputLabel |-> "outv"]
    ELSE LET top == IF overlays.top.present
                    THEN topFilters(inputLabel, overlays.top) ELSE << >>
             currentLabel == IF overlays.top.present THEN "top2" ELSE inputLabel
         IN  IF overlays.bottom.present
             THEN [filters |-> top \o bottomFilters(currentLabel, overlays.bottom),
                   outputLabel |-> "outv"]
             ELSE [filters |-> renameTrailing(top, "top2", "outv"),
                   outputLabel |-> "outv"]

buildOverlayFiltersCall ==
    /\ ~ovResult.defined
    /\ ovResult' = [defined |-> TRUE,
                    value |-> buildOverlayFilters(ovOverlays, ovInputLabel)]
    /\ UNCHANGED << ovOverlays, ovInputLabel >>
    /\ Frame("overlays")

\* ------------------------------------------------------------------------
\* Claims about buildOverlayFilters
\* ------------------------------------------------------------------------

\* The operations of a fragment: each starts after a ";", reads the label
\* that follows it and writes the label before the next ";" or the end.
SepPositions(f) == { k \in DOMAIN f : f[k].kind = "sep" }

LabelOps(f) ==
    LET starts == SepPositions(f)
        EndOf(k) == IF \E l \in starts : l > k
                    THEN (CHOOSE l \in starts : l > k /\ \A o \in starts : o > k => l <= o) - 1
                    ELSE Len(f)
        Nth(n) == CHOOSE k \in starts : Cardinality({ l \in starts : l < k }) = n - 1
    IN  [ n \in 1..Cardinality(starts) |->
            [in |-> f[Nth(n) + 1], out |-> f[EndOf(Nth(n))],
             kinds |-> { f[k].kind : k \in (Nth(n) + 2)..(EndOf(Nth(n)) - 1) }] ]

\* The bands configured.
HasTop == ovOverlays.given /\ ovOverlays.top.present
HasBottom == ovOverlays.given /\ ovOverlays.bottom.present

\* C16: the result's label is outv whichever bands are configured; with no
\* band the fragment is one null pass-through; the fragment starts at the
\* input label, every operation reads the label the one before wrote, and
\* outv is written exactly once, by the last operation.
C16_OverlayChainEndsAtOutv ==
    ovResult.defined =>
        LET f == ovResult.value.filters
            ops == LabelOps(f)
        IN  /\ ovResult.value.outputLabel = "outv"
            /\ f # << >> /\ f[1].kind = "sep"
            /\ Len(ops) = (IF HasTop THEN 2 ELSE 0) + (IF HasBottom THEN 2 ELSE 0)
                          + (IF ~HasTop /\ ~HasBottom THEN 1 ELSE 0)
            /\ (~HasTop /\ ~HasBottom) => ops[1].kinds = {"null"}
            /\ ops[1].in = Label(ovInputLabel)
            /\ \A n \in 2..Len(ops) : ops[n].in = ops[n - 1].out
            /\ \A n \in 1..Len(ops) : ops[n].out.kind = "label" /\ ops[n].in.kind = "label"
            /\ \A n \in 1..Len(ops) : ops[n].out = Label("outv") <=> n = Len(ops)
            /\ \A n \in 1..Len(ops), o \in 1..Len(ops) : ops[n].out = ops[o].out => n = o

\* A top band alone: its text operation writes outv.
C16_Witness ==
    /\ ovResult.defined
    /\ HasTop /\ ~HasBottom
    /\ ovOverlays.top.text = << "a", ":", "b" >>
    /\ ovInputLabel = "subtitled"
    /\ Len(LabelOps(ovResult.value.filters)) = 2
    /\ LabelOps(ovResult.value.filters)[2].out = Label("outv")

\* ------------------------------------------------------------------------
\* subtitles.ts: buildSubtitleFilter
\* ------------------------------------------------------------------------

\* `subtitles='${escapedPath}':force_style='${forceStyle}'`
SubtitlesTok == Tok("subtitles", "", 0, << >>)

buildSubtitleFilter(inputLabel) ==
    [filters |-> << SepTok, Label(inputLabel), SubtitlesTok, Label("subtitled") >>,
     outputLabel |-> "subtitled"]

\* ------------------------------------------------------------------------
\* ffmpeg.ts: encode
\* ------------------------------------------------------------------------

\* `concat=n=${segments.length}:v=1`
ConcatNTok(n) == Tok("concat", "", n, << >>)
\* `fps=${fps},scale=${width}:${height},format=yuv420p`
ScaleTok == Tok("scale", "", 0, << >>)

\* Number.prototype.toFixed(1) of a non-negative time in milliseconds.
toFixed1(ms) ==
    LET tenths == (ms + 50) \div 100
    IN  [int |-> tenths \div 10, frac |-> << tenths % 10 >>]

\* segments.map((s) => `-ss ${s.trimSec.toFixed(1)} -i "${s.videoPath}"`)
inputArgsOf(segs) ==
    [ k \in DOMAIN segs |-> [ss |-> toFixed1(segs[k].trimSec), video |-> k - 1] ]

\* Variant: the concatenation reads the first segment only.
plainConcatFirstOnly(n) ==
    << InputLabel(0), ConcatNTok(1), MidLabel >>

\* segments.map((_, i) => `[${i}:v]`).join("") + `concat=n=${n}:v=1[mid]`
plainConcat(n) ==
    [ k \in 1..n |-> InputLabel(k - 1) ] \o << ConcatNTok(n), MidLabel >>

\* ";[mid]fps=...,scale=...,format=yuv420p[scaled]"
scaleFilter == << SepTok, MidLabel, ScaleTok, Label("scaled") >>

\* subtitlesSrtPath && subtitlesConfig?.burn
burnsSubtitles == encSubtitlesSrtPath /\ encSubtitlesBurn

\* concatOrTransition + scaleFilter + subtitleFilter + overlayFilters
assemble(concatOrTransition) ==
    LET sub == IF burnsSubtitles
               THEN buildSubtitleFilter("scaled")
               ELSE [filters |-> << >>, outputLabel |-> "scaled"]
        overlayFilters == buildOverlayFilters(encOverlays, sub.outputLabel).filters
    IN  concatOrTransition \o scaleFilter \o sub.filters \o overlayFilters

\* segmentDurations && (transitions || perSegmentTransitions)
wantsTransitionFilter ==
    /\ encSegmentDurations.given
    /\ encTransitions # Undefined \/ encPerSegmentTransitions.given

encUnchangedInputs ==
    UNCHANGED << encSegments, encFormat, encOverlays, encAudioPath, encTransitions,
                 encPerSegmentTransitions, encSegmentDurations,
                 encSubtitlesSrtPath, encSubtitlesBurn, encTheme >>

\* The call of buildTransitionFilter({ segmentCount: segments.length, ... }).
encCallTransitions ==
    /\ encPc = "pending"
    /\ wantsTransitionFilter
    /\ encPc' = "transitions"
    /\ segmentDurations' = encSegmentDurations.items
    /\ globalTransition' = encTransitions
    /\ perSegmentTransitions' = encPerSegmentTransitions
    /\ pc' = "start"
    /\ UNCHANGED << loopI, filterChain, prevLabel, cumulativeDuration, result, total >>
    /\ UNCHANGED << encFilterComplex, encInvocations, encResults, encOutcome >>
    /\ encUnchangedInputs
    /\ FrameOf({"encode", "transitions"})

\* buildTransitionFilter has returned: its chain when it returned one, the
\* plain concatenation otherwise.
encBuildGraph ==
    /\ encPc = "transitions"
    /\ pc = "returned"
    /\ encFilterComplex' =
          assemble(IF result.defined /\ result.chain # << >>
                   THEN result.chain
                   ELSE plainConcat(Len(encSegments)))
    /\ encPc' = "mp4"
    /\ UNCHANGED << encInvocations, encResults, encOutcome >>
    /\ encUnchangedInputs
    /\ Frame("encode")

\* No segment durations, or no transition option: buildTransitionFilter is
\* not called.
encBuildGraphPlain ==
    /\ encPc = "pending"
    /\ ~wantsTransitionFilter
    /\ encFilterComplex' = assemble(plainConcat(Len(encSegments)))
    /\ encPc' = "mp4"
    /\ UNCHANGED << encInvocations, encResults, encOutcome >>
    /\ encUnchangedInputs
    /\ Frame("encode")

\* audioPath ? segments.length : -1
audioInputIndex == IF encAudioPath THEN Len(encSegments) ELSE -1

\* audioPath ? `-map ${audioInputIndex}:a -c:a ... -shortest` : "-an"
audioFlags(codec) ==
    IF encAudioPath
    THEN [an |-> FALSE, map |-> audioInputIndex, codec |-> codec, shortest |-> TRUE]
    ELSE [an |-> TRUE, map |-> -1, codec |-> "", shortest |-> FALSE]

\* The ffmpeg command line of one format, and the exit status execSync saw.
ffmpegCommand(format, exit) ==
    [format |-> format,
     inputArgs |-> inputArgsOf(encSegments),
     audioInputArg |-> encAudioPath,
     filterComplex |-> encFilterComplex,
     map |-> "outv",
     audioFlags |-> audioFlags(IF format = "mp4" THEN "aac" ELSE "libopus"),
     exit |-> exit]

\* if (output.format === "mp4" || output.format === "both"): execSync
\* returns, the artifact is pushed.
encMp4Succeeds ==
    /\ encPc = "mp4"
    /\ encFormat \in {"mp4", "both"}
    /\ encInvocations' = Append(encInvocations, ffmpegCommand("mp4", 0))
    /\ encResults' = Append(encResults, "mp4")
    /\ encPc' = "webm"
    /\ UNCHANGED << encFilterComplex, encOutcome >>
    /\ encUnchangedInputs
    /\ Frame("encode")

\* execSync throws: nothing catches it, encode ends.
encMp4Fails ==
    /\ encPc = "mp4"
    /\ encFormat \in {"mp4", "both"}
    /\ encInvocations' = Append(encInvocations, ffmpegCommand("mp4", 1))
    /\ encPc' = "threw"
    /\ encOutcome' = [kind |-> "exception", files |-> << >>]
    /\ UNCHANGED << encFilterComplex, encResults >>
    /\ encUnchangedInputs
    /\ Frame("encode")

encMp4Skipped ==
    /\ encPc = "mp4"
    /\ encFormat \notin {"mp4", "both"}
    /\ encPc' = "webm"
    /\ UNCHANGED << encFilterComplex, encInvocations, encResults, encOutcome >>
    /\ encUnchangedInputs
    /\ Frame("encode")

\* if (output.format === "webm" || output.format === "both")
encWebmSucceeds ==
    /\ encPc = "webm"
    /\ encFormat \in {"webm", "both"}
    /\ encInvocations' = Append(encInvocations, ffmpegCommand("webm", 0))
    /\ encResults' = Append(encResults, "webm")
    /\ encPc' = "return"
    /\ UNCHANGED << encFilterComplex, encOutcome >>
    /\ encUnchangedInputs
    /\ Frame("encode")

encWebmFails ==
    /\ encPc = "webm"
    /\ encFormat \in {"webm", "both"}
    /\ encInvocations' = Append(encInvocations, ffmpegCommand("webm", 1))
    /\ encPc' = "threw"
    /\ encOutcome' = [kind |-> "exception", files |-> << >>]
    /\ UNCHANGED << encFilterComplex, encResults >>
    /\ encUnchangedInputs
    /\ Frame("encode")

encWebmSkipped ==
    /\ encPc = "webm"
    /\ encFormat \notin {"webm", "both"}
    /\ encPc' = "return"
    /\ UNCHANGED << encFilterComplex, encInvocations, encResults, encOutcome >>
    /\ encUnchangedInputs
    /\ Frame("encode")

\* return results
encReturn ==
    /\ encPc = "return"
    /\ encPc' = "returned"
    /\ encOutcome' = [kind |-> "files", files |-> encResults]
    /\ UNCHANGED << encFilterComplex, encInvocations, encResults >>
    /\ encUnchangedInputs
    /\ Frame("encode")

\* ------------------------------------------------------------------------
\* Claims about encode
\* ------------------------------------------------------------------------

\* The graph has been assembled.
GraphBuilt == encPc \notin {"pending", "transitions"}

\* encode has ended, by returning or by throwing.
EncodeEnded == encPc \in {"returned", "threw"}

\* The runs of tokens between the ";" of a graph.
RECURSIVE SplitRuns(_)
SplitRuns(g) ==
    IF g = << >> THEN << >>
    ELSE LET seps == { k \in DOMAIN g : g[k].kind = "sep" }
             cut == IF seps = {} THEN Len(g) + 1
                    ELSE CHOOSE k \in seps : \A l \in seps : k <= l
         IN  (IF cut = 1 THEN << >> ELSE << SubSeq(g, 1, cut - 1) >>)
             \o SplitRuns(SubSeq(g, cut + 1, Len(g)))

\* An operation of a graph: the labels it reads, what it does, the label
\* it writes.
OpOf(run) ==
    LET reads == { k \in 1..(Len(run) - 1) : \A l \in 1..k : run[l].kind = "label" }
    IN  [ins |-> { run[k] : k \in reads },
         kind |-> run[Cardinality(reads) + 1].kind,
         out |-> run[Len(run)]]

GraphOps == LET runs == SplitRuns(encFilterComplex)
            IN  [ n \in DOMAIN runs |-> OpOf(runs[n]) ]

\* A raw input stream, `[k:v]`.
RawInput(l) == l.kind = "label" /\ l.name = "v"

\* The stage of the chain an operation belongs to.
Stage(kind) ==
    CASE kind \in {"concat", "xfade"} -> 1
      [] kind = "scale" -> 2
      [] kind = "subtitles" -> 3
      [] kind \in {"null", "drawbox", "drawtext"} -> 4
      [] kind = "theme" -> 5
      [] OTHER -> 0

OpsOfStage(s) == { n \in DOMAIN GraphOps : Stage(GraphOps[n].kind) = s }

HasEncTop == encOverlays.given /\ encOverlays.top.present
HasEncBottom == encOverlays.given /\ encOverlays.bottom.present

\* The stages follow one another in the order of the chain, each present
\* when it is configured.
StagesInOrder ==
    /\ \A n \in DOMAIN GraphOps : Stage(GraphOps[n].kind) # 0
    /\ \A n \in DOMAIN GraphOps, o \in DOMAIN GraphOps :
          n < o => Stage(GraphOps[n].kind) <= Stage(GraphOps[o].kind)
    /\ OpsOfStage(1) # {}
    /\ Cardinality(OpsOfStage(2)) = 1
    /\ Cardinality(OpsOfStage(3)) = (IF burnsSubtitles THEN 1 ELSE 0)
    /\ (HasEncTop \/ HasEncBottom) => OpsOfStage(4) # {}
    /\ encTheme <=> OpsOfStage(5) # {}

\* Every label is written by one operation only.
LabelsUnique ==
    \A n \in DOMAIN GraphOps, o \in DOMAIN GraphOps :
        /\ GraphOps[n].out.kind = "label"
        /\ ~RawInput(GraphOps[n].out)
        /\ GraphOps[n].out = GraphOps[o].out => n = o

\* Every operation reads raw inputs, or the label the one before it wrote.
ChainedByLabel ==
    \A n \in DOMAIN GraphOps :
        \A l \in GraphOps[n].ins :
            RawInput(l) \/ (n > 1 /\ l = GraphOps[n - 1].out)

\* The label every command maps as its video is the one the last operation
\* wrote.
MapsLastLabel ==
    \A k \in DOMAIN encInvocations :
        Label(encInvocations[k].map) = GraphOps[Len(GraphOps)].out

\* C18: the graph is the chain concat-or-transition, scale, subtitle burn
\* when configured, overlay when configured, theme framing when configured;
\* every label is written by exactly one operation, every operation reads
\* raw inputs or the label written just before it, and the label mapped as
\* the final video is the one the last operation writes.
C18_GraphIsLabelChain ==
    GraphBuilt =>
        /\ StagesInOrder
        /\ LabelsUnique
        /\ ChainedByLabel
        /\ MapsLastLabel

\* The formats asked for.
Requested(format) == encFormat \in {format, "both"}

InvocationsOf(format) ==
    { k \in DOMAIN encInvocations : encInvocations[k].format = format }

\* C19: the encode command is invoked exactly once for each format asked
\* for and never for another, mp4 before webm, every time with the same
\* graph and input arguments; a failed invocation is not repeated, and an
\* artifact is recorded only after the invocation of its format succeeded.
C19_OneInvocationPerFormat ==
    /\ \A f \in {"mp4", "webm"} :
          /\ Cardinality(InvocationsOf(f)) <= (IF Requested(f) THEN 1 ELSE 0)
          /\ EncodeEnded /\ Requested(f) => Cardinality(InvocationsOf(f)) = 1
    /\ \A k \in DOMAIN encInvocations, l \in DOMAIN encInvocations :
          /\ k < l => encInvocations[k].format = "mp4" /\ encInvocations[l].format = "webm"
          /\ encInvocations[k].filterComplex = encInvocations[l].filterComplex
          /\ encInvocations[k].inputArgs = encInvocations[l].inputArgs
    /\ \A a \in DOMAIN encResults :
          \E k \in InvocationsOf(encResults[a]) : encInvocations[k].exit = 0

\* The formats whose invocation failed, and those encoded.
FailedFormats ==
    { encInvocations[k].format : k \in { l \in DOMAIN encInvocations : encInvocations[l].exit # 0 } }
EncodedFormats ==
    { encInvocations[k].format : k \in { l \in DOMAIN encInvocations : encInvocations[l].exit = 0 } }

\* The formats of the artifacts the caller receives.
ReportedFormats == { encOutcome.files[a] : a \in DOMAIN encOutcome.files }

OtherFormat(format) == IF format = "mp4" THEN "webm" ELSE "mp4"

\* C20: when both formats are asked for and the command fails for one of
\* them, the other format is still encoded and its artifact is reported to
\* the caller, and the caller is told of the failure.
C20_FailureIsPerFormat ==
    (encFormat = "both" /\ EncodeEnded) =>
        \A f \in FailedFormats :
            /\ OtherFormat(f) \in EncodedFormats
            /\ OtherFormat(f) \in ReportedFormats
            /\ encOutcome.kind # "files"

\* The time a `-ss` argument denotes, in milliseconds.
SsMs(arg) == 1000 * arg.ss.int + 100 * arg.ss.frac[1]

\* The audio part of a command: mapped, with -shortest, from the input that
\* follows the videos when an audio track is supplied; "-an" otherwise.
AudioMappedRight(inv) ==
    IF encAudioPath
    THEN /\ inv.audioInputArg
         /\ ~inv.audioFlags.an
         /\ inv.audioFlags.shortest
         /\ inv.audioFlags.map = Len(encSegments)
    ELSE /\ ~inv.audioInputArg
         /\ inv.audioFlags.an
         /\ ~inv.audioFlags.shortest
         /\ inv.audioFlags.map = -1

\* The video inputs of a command: one per segment, in segment order.
VideoInputsInOrder(inv) ==
    /\ Len(inv.inputArgs) = Len(encSegments)
    /\ \A j \in DOMAIN inv.inputArgs : inv.inputArgs[j].video = j - 1

\* C21: in every invocation the audio mapping and -shortest are present
\* exactly when an audio track was supplied, the mapped audio input is the
\* one after all the video inputs, without audio the command carries -an
\* and maps no audio; the video inputs are one per segment, in order, each
\* preceded by that segment's trim offset.
C21_AudioAndInputArguments ==
    \A k \in DOMAIN encInvocations :
        /\ AudioMappedRight(encInvocations[k])
        /\ VideoInputsInOrder(encInvocations[k])
        /\ \A j \in DOMAIN encInvocations[k].inputArgs :
              SsMs(encInvocations[k].inputArgs[j]) = encSegments[j].trimSec

\* Some transition is configured, globally or on a segment.
EncTransitionsConfigured ==
    \/ encTransitions # Undefined
    \/ /\ encPerSegmentTransitions.given
       /\ \E k \in DOMAIN encPerSegmentTransitions.items :
             encPerSegmentTransitions.items[k] # Undefined

\* The transition chain cannot be built.
CannotBuildTransitions == Len(encSegments) = 1 \/ ~encSegmentDurations.given

\* buildTransitionFilter has been called: it holds encode's durations.
PlannerInvoked == segmentDurations # << >>

\* The graph starts with the concatenation of all the segments into [mid].
StartsWithPlainConcat ==
    LET n == Len(encSegments)
    IN  /\ Len(encFilterComplex) >= n + 2
        /\ \A k \in 1..n : encFilterComplex[k] = Tok("label", "v", k - 1, << >>)
        /\ encFilterComplex[n + 1] = Tok("concat", "", n, << >>)
        /\ encFilterComplex[n + 2] = Tok("label", "mid", 0, << >>)
        /\ CountKind(encFilterComplex, {"xfade"}) = 0
        /\ CountKind(encFilterComplex, {"concat"}) = 1

\* C22 as stated: with transitions configured that cannot be built, encode
\* goes on with the plain concatenation of all segments into [mid] and no
\* cross-fade, and for a single segment the transition planner is not
\* invoked.
C22_FallbackToConcat ==
    (GraphBuilt /\ EncTransitionsConfigured /\ CannotBuildTransitions) =>
        /\ StartsWithPlainConcat
        /\ Len(encSegments) = 1 => ~PlannerInvoked

\* C22 amended: with transitions configured that cannot be built, encode
\* goes on with the plain concatenation of all segments into [mid] and no
\* cross-fade; the planner is invoked exactly when segment durations are
\* supplied, and for a single segment it returns undefined.
C22_FallbackToConcatAmended ==
    (GraphBuilt /\ EncTransitionsConfigured /\ CannotBuildTransitions) =>
        /\ StartsWithPlainConcat
        /\ PlannerInvoked <=> encSegmentDurations.given
        /\ PlannerInvoked => (pc = "returned" /\ ~result.defined)

C22_Witness ==
    /\ encPc = "returned"
    /\ Len(encSegments) = 1
    /\ encTransitions # Undefined
    /\ encSegmentDurations.given
    /\ PlannerInvoked
    /\ StartsWithPlainConcat

\* C28: the trim offset every command gives for a segment's input is the
\* trim offset of the segment, the one subtracted from the raw duration
\* when the segment's duration was computed.
C28_TrimOffsetsAgree ==
    \A k \in DOMAIN encInvocations :
        \A j \in DOMAIN encInvocations[k].inputArgs :
            SsMs(encInvocations[k].inputArgs[j]) = encSegments[j].trimSec

\* ------------------------------------------------------------------------
\* license.ts: detectProFeatures, validateLicenseKey, enforceLicense
\* ------------------------------------------------------------------------

\* A key that is not there: an omitted argument, an unset variable.
NoKey == [given |-> FALSE, kind |-> ""]

\* The keys explored: the empty string, a string that is not of the form
\* DMTP-PRO-<16 hex>-<signature>, one whose signature is not 64 bytes, one
\* whose signature does not verify, and a key that verifies.
KeyKinds == {"empty", "malformed", "shortsig", "forged", "valid"}

\* The parts of a config that detectProFeatures looks at, besides
\* output.format.
ConfigFlags ==
    {"overlays.top", "overlays.bottom", "auth.supabase", "visualReadiness",
     "narration", "segment.narration", "subtitles", "transitions",
     "segment.transition", "cursor"}

\* The list detectProFeatures pushes, one test after the other.
detectProFeatures(config, ci) ==
    (IF config.format \in {"webm", "both"} THEN << "Multi-format output" >> ELSE << >>)
    \o (IF "overlays.top" \in config.flags \/ "overlays.bottom" \in config.flags
        THEN << "Text overlays" >> ELSE << >>)
    \o (IF "auth.supabase" \in config.flags THEN << "Supabase auth" >> ELSE << >>)
    \o (IF "visualReadiness" \in config.flags
        THEN << "Visual readiness detection" >> ELSE << >>)
    \o (IF "narration" \in config.flags \/ "segment.narration" \in config.flags
        THEN << "AI narration" >> ELSE << >>)
    \o (IF "subtitles" \in config.flags THEN << "Subtitles/captions" >> ELSE << >>)
    \o (IF "transitions" \in config.flags \/ "segment.transition" \in config.flags
        THEN << "Segment transitions" >> ELSE << >>)
    \o (IF "cursor" \in config.flags THEN << "Cursor animation" >> ELSE << >>)
    \o (IF ci THEN << "CI/CD environment" >> ELSE << >>)

\* The format matches, the signature has 64 bytes, the signature verifies.
validateLicenseKey(key) ==
    /\ key.kind \notin {"empty", "malformed"}
    /\ key.kind # "shortsig"
    /\ key.kind # "forged"

\* !key: undefined, or the empty string
falsyKey(key) == ~key.given \/ key.kind = "empty"

\* Variant: the environment's key is preferred to the argument.
effectiveKeyEnvFirst(licenseKey, envKey) ==
    IF falsyKey(envKey) THEN licenseKey ELSE envKey

\* licenseKey || process.env.DEMOTAPE_LICENSE_KEY
effectiveKey(licenseKey, envKey) ==
    IF falsyKey(licenseKey) THEN envKey ELSE licenseKey

licUnchangedInputs == UNCHANGED << licConfig, licKeyArg, licEnvKey, licEnvCI >>

\* if (proFeatures.length === 0) return
enforceReturnsFree ==
    /\ licPc = "call"
    /\ proFeatures' = detectProFeatures(licConfig, licEnvCI)
    /\ Len(proFeatures') = 0
    /\ licPc' = "returned"
    /\ licUnchangedInputs
    /\ Frame("license")

\* if (!key) throw new LicenseError(proFeatures)
enforceThrowsNoKey ==
    /\ licPc = "call"
    /\ proFeatures' = detectProFeatures(licConfig, licEnvCI)
    /\ Len(proFeatures') # 0
    /\ falsyKey(effectiveKey(licKeyArg, licEnvKey))
    /\ licPc' = "threw"
    /\ licUnchangedInputs
    /\ Frame("license")

\* if (!validateLicenseKey(key)) throw new LicenseError(proFeatures)
enforceThrowsInvalidKey ==
    /\ licPc = "call"
    /\ proFeatures' = detectProFeatures(licConfig, licEnvCI)
    /\ Len(proFeatures') # 0
    /\ ~falsyKey(effectiveKey(licKeyArg, licEnvKey))
    /\ ~validateLicenseKey(effectiveKey(licKeyArg, licEnvKey))
    /\ licPc' = "threw"
    /\ licUnchangedInputs
    /\ Frame("license")

\* The key is valid: the function ends without throwing.
enforceReturnsLicensed ==
    /\ licPc = "call"
    /\ proFeatures' = detectProFeatures(licConfig, licEnvCI)
    /\ Len(proFeatures') # 0
    /\ ~falsyKey(effectiveKey(licKeyArg, licEnvKey))
    /\ validateLicenseKey(effectiveKey(licKeyArg, licEnvKey))
    /\ licPc' = "returned"
    /\ licUnchangedInputs
    /\ Frame("license")

\* ------------------------------------------------------------------------
\* Claims about enforceLicense
\* ------------------------------------------------------------------------

\* The config uses a Pro feature.
ConfigUsesPro == licConfig.format # "mp4" \/ licConfig.flags # {}

\* A key that is there and verifies.
GoodKey(key) == key.given /\ key.kind = "valid"

\* The effective key as the claim has it: the argument when it is given.
StatedEffectiveKey == IF licKeyArg.given THEN licKeyArg ELSE licEnvKey

\* The effective key: the argument when it is a non-empty string.
NonEmptyEffectiveKey ==
    IF licKeyArg.given /\ licKeyArg.kind # "empty" THEN licKeyArg ELSE licEnvKey

NoScript == [defined |-> FALSE, text |-> ""]
\* A script that is a string; "" is the empty string.
Script(str) == [defined |-> TRUE, text |-> str]

\* segmentConfigs[i] when the array has no such element.
NoSegmentConfig == [present |-> FALSE, narration |-> FALSE, auto |-> "undefined", script |-> NoScript]
\* A segment config without a narration block.
NoNarrationBlock == [present |-> TRUE, narration |-> FALSE, auto |-> "undefined", script |-> NoScript]

\* A value used as a condition: undefined and "" are false.
truthyScript(s) == s.defined /\ s.text # ""

\* Variant: with autoAll, a manual script in the config does not count.
needsAutoIgnoringManual(conf, autoAll) ==
    conf.auto = "true" \/ autoAll

\* conf?.narration?.auto || (autoAll && !conf?.narration?.script)
needsAuto(conf, autoAll) ==
    conf.auto = "true" \/ (autoAll /\ ~truthyScript(conf.script))

anUnchangedInputs == UNCHANGED << anScriptsIn, anConfigs, anAutoAll >>

\* if (seg.narrationScript) continue
anSkipScripted ==
    /\ anPc = "loop" /\ anI <= Len(anSegments)
    /\ truthyScript(anSegments[anI])
    /\ anI' = anI + 1
    /\ UNCHANGED << anSegments, anPc, aiCalls >>
    /\ anUnchangedInputs
    /\ Frame("autonarrate")

\* if (!needsAuto) continue
anSkipNotRequested ==
    /\ anPc = "loop" /\ anI <= Len(anSegments)
    /\ ~truthyScript(anSegments[anI])
    /\ ~needsAuto(anConfigs[anI], anAutoAll)
    /\ anI' = anI + 1
    /\ UNCHANGED << anSegments, anPc, aiCalls >>
    /\ anUnchangedInputs
    /\ Frame("autonarrate")

\* The frame is extracted, generateNarrationScript answers with a string,
\* and the string becomes the segment's script.
anGenerate ==
    /\ anPc = "loop" /\ anI <= Len(anSegments)
    /\ ~truthyScript(anSegments[anI])
    /\ needsAuto(anConfigs[anI], anAutoAll)
    /\ \E reply \in {"generated", ""} :
          /\ aiCalls' = Append(aiCalls, [segmentIndex |-> anI, returned |-> TRUE, script |-> reply])
          /\ anSegments' = [anSegments EXCEPT ![anI] = Script(reply)]
    /\ anI' = anI + 1
    /\ UNCHANGED anPc
    /\ anUnchangedInputs
    /\ Frame("autonarrate")

\* extractFrameAsBase64 throws (no call is made), or the call is made and
\* rejects: autoNarrateSegments rejects and the loop ends there.
anGenerateThrows ==
    /\ anPc = "loop" /\ anI <= Len(anSegments)
    /\ ~truthyScript(anSegments[anI])
    /\ needsAuto(anConfigs[anI], anAutoAll)
    /\ \E called \in BOOLEAN :
          aiCalls' = IF called
                     THEN Append(aiCalls, [segmentIndex |-> anI, returned |-> FALSE, script |-> ""])
                     ELSE aiCalls
    /\ anPc' = "threw"
    /\ UNCHANGED << anSegments, anI >>
    /\ anUnchangedInputs
    /\ Frame("autonarrate")

\* i reaches segments.length
anReturn ==
    /\ anPc = "loop" /\ anI > Len(anSegments)
    /\ anPc' = "returned"
    /\ UNCHANGED << anSegments, anI, aiCalls >>
    /\ anUnchangedInputs
    /\ Frame("autonarrate")

\* ------------------------------------------------------------------------
\* Claims about autoNarrateSegments
\* ------------------------------------------------------------------------

\* The segment came in with a script that says something.
HadScript(i) == anScriptsIn[i].defined /\ anScriptsIn[i].text # ""

\* The segment's config carries a manual script.
HasManualScript(i) == anConfigs[i].script.defined /\ anConfigs[i].script.text # ""

\* The AI calls made for segment i.
CallsFor(i) == { k \in DOMAIN aiCalls : aiCalls[k].segmentIndex = i }

\* Segment i was given the script a call for it returned.
AssignedGenerated(i) ==
    \E k \in CallsFor(i) :
        /\ aiCalls[k].returned
        /\ anSegments[i] = [defined |-> TRUE, text |-> aiCalls[k].script]

\* The segments for which the claim has a script generated.
ShouldGenerate(i) ==
    /\ ~HadScript(i)
    /\ \/ anConfigs[i].auto = "true"
       \/ anAutoAll /\ ~HasManualScript(i)

\* C24: a segment is given a generated script exactly when it had no script
\* and its config has narration.auto set or autoAll is true and its config
\* has no manual script; a segment that had a script keeps it and causes no
\* AI call; with autoAll false and no auto flag nothing changes and no AI
\* call is made.
C24_AutoNarrateExactlyWhenRequested ==
    /\ \A i \in DOMAIN anSegments :
          /\ AssignedGenerated(i) => ShouldGenerate(i)
          /\ (anPc = "returned" /\ ShouldGenerate(i)) => AssignedGenerated(i)
          /\ Cardinality(CallsFor(i)) <= 1
          /\ (~AssignedGenerated(i)) => anSegments[i] = anScriptsIn[i]
          /\ HadScript(i) => (anSegments[i] = anScriptsIn[i] /\ CallsFor(i) = {})
    /\ (~anAutoAll /\ \A i \in DOMAIN anConfigs : anConfigs[i].auto # "true")
          => (anSegments = anScriptsIn /\ aiCalls = << >>)

\* With autoAll, a segment with a manual script in its config is passed
\* over and the one after it gets a generated script.
C24_Witness ==
    /\ anPc = "returned"
    /\ anAutoAll
    /\ Len(anSegments) = 2
    /\ HasManualScript(1) /\ ~HadScript(1) /\ anConfigs[1].auto # "true"
    /\ anSegments[1] = anScriptsIn[1]
    /\ ~HadScript(2) /\ AssignedGenerated(2)
    /\ anSegments[2].text = "generated"
    /\ Len(aiCalls) = 1

\* ------------------------------------------------------------------------
\* recorder.ts: record, from the recorded segments to the report
\* ------------------------------------------------------------------------

\* The segments' scripts as record sees them: the array it built, which is
\* the array autoNarrateSegments writes into once it has been handed over.
recSegmentScripts == IF recNarrateCalled THEN anSegments ELSE recScripts

\* A result of a step that has not been computed.
NotComputed == [defined |-> FALSE, scripts |-> << >>, trims |-> << >>, durations |-> << >>]
\* What a step was computed from.
ComputedFrom(scripts, trims, durations) ==
    [defined |-> TRUE, scripts |-> scripts, trims |-> trims, durations |-> durations]

\* config.narration?.auto || config.segments.some((s) => s.narration?.auto)
needsAutoNarration ==
    \/ recConfig.narration = "auto"
    \/ \E i \in DOMAIN recSegmentConfigs : recSegmentConfigs[i].auto = "true"

\* config.narration || segments.some((s) => s.narrationScript)
hasNarration ==
    \/ recConfig.narration # "none"
    \/ \E i \in DOMAIN recSegmentScripts : truthyScript(recSegmentScripts[i])

recUnchangedInputs == UNCHANGED << recConfig, recSegmentConfigs, recScripts, recTrimSec >>

\* if (segments.length === 0) throw new Error("No segments were recorded")
recNoSegments ==
    /\ recPhase = "recorded"
    /\ Len(recScripts) = 0
    /\ recPhase' = "threw"
    /\ UNCHANGED << recNarrateCalled, recAudio, recDurations, recSubtitles, recEncoded >>
    /\ recUnchangedInputs
    /\ Frame("record")

\* autoNarrateSegments({ segments, autoAll: !!config.narration?.auto }, config.segments)
recCallAutoNarrate ==
    /\ recPhase = "recorded"
    /\ Len(recScripts) > 0
    /\ needsAutoNarration
    /\ anSegments' = recScripts
    /\ anScriptsIn' = recScripts
    /\ anConfigs' = recSegmentConfigs
    /\ anAutoAll' = (recConfig.narration = "auto")
    /\ anI' = 1
    /\ anPc' = "loop"
    /\ aiCalls' = << >>
    /\ recNarrateCalled' = TRUE
    /\ recPhase' = "autonarrating"
    /\ UNCHANGED << recAudio, recDurations, recSubtitles, recEncoded >>
    /\ recUnchangedInputs
    /\ FrameOf({"record", "autonarrate"})

\* needsAutoNarration is false
recSkipAutoNarrate ==
    /\ recPhase = "recorded"
    /\ Len(recScripts) > 0
    /\ ~needsAutoNarration
    /\ recPhase' = "tts"
    /\ UNCHANGED << recNarrateCalled, recAudio, recDurations, recSubtitles, recEncoded >>
    /\ recUnchangedInputs
    /\ Frame("record")

\* Variant: record goes on without awaiting autoNarrateSegments.
recAutoNarrateUnawaited ==
    /\ recPhase = "autonarrating"
    /\ recPhase' = "tts"
    /\ UNCHANGED << recNarrateCalled, recAudio, recDurations, recSubtitles, recEncoded >>
    /\ recUnchangedInputs
    /\ Frame("record")

\* await autoNarrateSegments(...) resolves
recAutoNarrateDone ==
    /\ recPhase = "autonarrating"
    /\ anPc = "returned"
    /\ recPhase' = "tts"
    /\ UNCHANGED << recNarrateCalled, recAudio, recDurations, recSubtitles, recEncoded >>
    /\ recUnchangedInputs
    /\ Frame("record")

\* await autoNarrateSegments(...) rejects: record rejects
recAutoNarrateRejects ==
    /\ recPhase = "autonarrating"
    /\ anPc = "threw"
    /\ recPhase' = "threw"
    /\ UNCHANGED << recNarrateCalled, recAudio, recDurations, recSubtitles, recEncoded >>
    /\ recUnchangedInputs
    /\ Frame("record")

\* generateNarration resolves: audioPath is its concatenatedPath
recNarrationTts ==
    /\ recPhase = "tts"
    /\ hasNarration
    /\ recAudio' = TRUE
    /\ recPhase' = "durations"
    /\ UNCHANGED << recNarrateCalled, recDurations, recSubtitles, recEncoded >>
    /\ recUnchangedInputs
    /\ Frame("record")

\* generateNarration rejects
recNarrationTtsRejects ==
    /\ recPhase = "tts"
    /\ hasNarration
    /\ recPhase' = "threw"
    /\ UNCHANGED << recNarrateCalled, recAudio, recDurations, recSubtitles, recEncoded >>
    /\ recUnchangedInputs
    /\ Frame("record")

\* hasNarration is false
recSkipTts ==
    /\ recPhase = "tts"
    /\ ~hasNarration
    /\ recPhase' = "durations"
    /\ UNCHANGED << recNarrateCalled, recAudio, recDurations, recSubtitles, recEncoded >>
    /\ recUnchangedInputs
    /\ Frame("record")

\* The durations ffprobe reports, in milliseconds.
RecordedDurations == {2000, 3000}

\* segments.map((s) => getSegmentDuration(s.videoPath, s.trimSec)): what
\* ffprobe reports is the environment's.
recComputeDurations ==
    /\ recPhase = "durations"
    /\ \E d \in RecordedDurations :
          recDurations' = ComputedFrom(recSegmentScripts, recTrimSec,
                                       [ i \in DOMAIN recTrimSec |-> d ])
    /\ recPhase' = "subtitles"
    /\ UNCHANGED << recNarrateCalled, recAudio, recSubtitles, recEncoded >>
    /\ recUnchangedInputs
    /\ Frame("record")

\* if (config.subtitles) entries = buildSubtitleEntries(segments, segmentDurations)
recBuildSubtitles ==
    /\ recPhase = "subtitles"
    /\ recConfig.subtitles
    /\ recSubtitles' = ComputedFrom(recSegmentScripts, recTrimSec, recDurations.durations)
    /\ recPhase' = "encode"
    /\ UNCHANGED << recNarrateCalled, recAudio, recDurations, recEncoded >>
    /\ recUnchangedInputs
    /\ Frame("record")

\* config.subtitles is not set
recSkipSubtitles ==
    /\ recPhase = "subtitles"
    /\ ~recConfig.subtitles
    /\ recPhase' = "encode"
    /\ UNCHANGED << recNarrateCalled, recAudio, recDurations, recSubtitles, recEncoded >>
    /\ recUnchangedInputs
    /\ Frame("record")

\* encode({ segments, ..., segmentDurations }) or renderWithRemotion({
\* segments, segmentDurations, ... }) returns
recEncode ==
    /\ recPhase = "encode"
    /\ recEncoded' = ComputedFrom(recSegmentScripts, recTrimSec, recDurations.durations)
    /\ recPhase' = "done"
    /\ UNCHANGED << recNarrateCalled, recAudio, recDurations, recSubtitles >>
    /\ recUnchangedInputs
    /\ Frame("record")

\* encode or renderWithRemotion throws
recEncodeThrows ==
    /\ recPhase = "encode"
    /\ recPhase' = "threw"
    /\ UNCHANGED << recNarrateCalled, recAudio, recDurations, recSubtitles, recEncoded >>
    /\ recUnchangedInputs
    /\ Frame("record")

\* ------------------------------------------------------------------------
\* Claims about the order of record's steps
\* ------------------------------------------------------------------------

\* The back-fill is not under way: it was not needed, or it has returned.
BackfillComplete == recNarrateCalled => anPc = "returned"

\* C25: the narration back-fill is complete before anything that depends on
\* durations is computed: durations, subtitle entries and the encode are
\* computed only with the back-fill complete and in that order, and from
\* the construction of the subtitle entries to the end of the encode no
\* segment's script or trim offset changes.
C25_BackfillBeforeDurations ==
    /\ recDurations.defined => BackfillComplete
    /\ recPhase \in {"durations", "subtitles", "encode", "done"} => BackfillComplete
    /\ recSubtitles.defined =>
          /\ recDurations.defined
          /\ recSubtitles.durations = recDurations.durations
          /\ recSubtitles.scripts = recSegmentScripts
          /\ recSubtitles.trims = recTrimSec
    /\ recEncoded.defined =>
          /\ recDurations.defined
          /\ recEncoded.durations = recDurations.durations
          /\ recEncoded.scripts = recDurations.scripts
          /\ recEncoded.scripts = recSegmentScripts
          /\ recEncoded.trims = recTrimSec
          /\ recSubtitles.defined =>
                (recEncoded.scripts = recSubtitles.scripts /\ recEncoded.trims = recSubtitles.trims)

\* A run with a back-filled script, subtitles and an encode that ended.
C25_Witness ==
    /\ recPhase = "done"
    /\ recNarrateCalled /\ Len(aiCalls) = 2
    /\ recSubtitles.defined /\ recEncoded.defined
    /\ recEncoded.scripts # recScripts
    /\ recEncoded.scripts[2] = Script("generated")

\* ------------------------------------------------------------------------
\* ai/narration.ts: splitScript
\* ------------------------------------------------------------------------

\* text.match(/[^.!?]+[.!?]+\s*/g): as matchSentences, and each match takes
\* the white space that follows its marks.
RECURSIVE matchScriptSentences(_)
matchScriptSentences(s) ==
    LET s1 == SubSeq(s, leadingRun(s, SentenceEnd, TRUE) + 1, Len(s))
        a == leadingRun(s1, SentenceEnd, FALSE)
        b == leadingRun(SubSeq(s1, a + 1, Len(s1)), SentenceEnd, TRUE)
        w == leadingRun(SubSeq(s1, a + b + 1, Len(s1)), {" "}, TRUE)
    IN  IF a = 0 \/ b = 0
        THEN << >>
        ELSE << SubSeq(s1, 1, a + b + w) >>
             \o matchScriptSentences(SubSeq(s1, a + b + w + 1, Len(s1)))

\* The loop over the sentences and the push after it: current is flushed,
\* trimmed, when the next sentence would take it over the limit.
RECURSIVE packSentences(_, _, _)
packSentences(sentences, current, maxChars) ==
    IF sentences = << >>
    THEN IF trim(current) # << >> THEN << trim(current) >> ELSE << >>
    ELSE IF Len(current) + Len(sentences[1]) > maxChars /\ Len(current) > 0
         THEN << trim(current) >> \o packSentences(Tail0(sentences), sentences[1], maxChars)
         ELSE packSentences(Tail0(sentences), current \o sentences[1], maxChars)

splitScript(str, maxChars) ==
    IF Len(str) <= maxChars
    THEN << str >>
    ELSE LET matched == matchScriptSentences(str)
             sentences == IF matched = << >> THEN << str >> ELSE matched
         IN  packSentences(sentences, << >>, maxChars)

\* A call of splitScript(text, maxChars).
splitScriptCall ==
    /\ ~ssChunks.defined
    /\ ssChunks' = [defined |-> TRUE, value |-> splitScript(ssText, ssMaxChars)]
    /\ UNCHANGED << ssText, ssMaxChars >>
    /\ Frame("script")

\* ------------------------------------------------------------------------
\* Claims about splitScript
\* ------------------------------------------------------------------------

\* The characters of a string that are not white space, in order.
RECURSIVE Inked(_)
Inked(s) ==
    IF s = << >> THEN << >>
    ELSE (IF s[1] = " " THEN << >> ELSE << s[1] >>) \o Inked(Tail0(s))

RECURSIVE InkedAll(_)
InkedAll(cs) == IF cs = << >> THEN << >> ELSE Inked(cs[1]) \o InkedAll(Tail0(cs))

\* C26: every chunk splitScript returns has at most maxChars characters, and
\* the chunks in order hold the whole script, a sentence longer than the
\* limit and the text after the last sentence-ending mark included.
C26_ScriptChunksBoundedAndComplete ==
    ssChunks.defined =>
        /\ \A k \in DOMAIN ssChunks.value : Len(ssChunks.value[k]) <= ssMaxChars
        /\ InkedAll(ssChunks.value) = Inked(ssText)

\* ------------------------------------------------------------------------
\* Claims about subtitle times and the cross-faded output
\* ------------------------------------------------------------------------

\* The time taken off the output before segment k by the cross-fades of the
\* boundaries before it.
RECURSIVE OverlapBefore(_)
OverlapBefore(k) ==
    IF k <= 1 THEN 0
    ELSE OverlapBefore(k - 1)
         + getTransitionAt(k - 2, globalTransition, perSegmentTransitions).duration

\* Where segment k starts in the cross-faded output.
OutputStart(k) == CumulativeStart(k) - OverlapBefore(k)

\* C27: with transitions the subtitle times are still times of the output:
\* the last entry ends no later than computeTotalDurationWithTransitions of
\* the same durations, and the first entry of every narrated segment starts
\* where that segment starts in the cross-faded output.
C27_SubtitlesOnOutputTimeline ==
    (subPc = "returned" /\ total.defined) =>
        /\ entries # << >> =>
              RatLeq(entries[Len(entries)].endSec, Rat(total.value, 1))
        /\ \A k \in DOMAIN subSegments :
              ChunkCount(k) > 0 =>
                  RatEq(entries[EntriesBefore(k) + 1].startSec, Rat(OutputStart(k), 1))

\* ------------------------------------------------------------------------
\* ai/visual-readiness.ts: compareScreenshots, waitForVisualReadiness
\* ------------------------------------------------------------------------

\* The number of positions below minLen at which the buffers differ.
RECURSIVE diffCountUpTo(_, _, _)
diffCountUpTo(a, b, minLen) ==
    IF minLen = 0 THEN 0
    ELSE diffCountUpTo(a, b, minLen - 1) + (IF a[minLen] # b[minLen] THEN 1 ELSE 0)

\* The fraction of differing bytes, as a quotient; bytes one buffer has and
\* the other has not count as differences, and two empty buffers give 0.
compareScreenshots(a, b) ==
    LET len == Max(Len(a), Len(b))
        minLen == IF Len(a) <= Len(b) THEN Len(a) ELSE Len(b)
    IN  IF len = 0 THEN Rat(0, 1)
        ELSE Rat(diffCountUpTo(a, b, minLen) + (len - minLen), len)

\* Variant: a comparison counts as stable whatever the difference.
diffWithinAlways(diff, threshold) == TRUE

\* diff <= opts.threshold
diffWithin(diff, threshold) == diff.num * threshold.den <= threshold.num * diff.den

\* The time a call of page.screenshot takes, in milliseconds.
ShotMs == {0, 100}

\* The screenshots a page gives: PNG buffers of one or two bytes.
Screenshots == { << 0 >>, << 0, 0 >>, << 0, 1 >>, << 1, 1 >> }

vrUnchangedOpts == UNCHANGED vrOpts

\* startTime = Date.now(); stableCount = 0; prevScreenshot = await page.screenshot()
vrFirstScreenshot ==
    /\ vrPc = "start"
    /\ \E shot \in Screenshots, took \in ShotMs :
          /\ vrShots' = << [buf |-> shot, at |-> 0] >>
          /\ vrPrev' = shot
          /\ vrElapsed' = took
    /\ vrStable' = 0
    /\ vrPc' = "loop"
    /\ UNCHANGED << vrCompared, vrReturned >>
    /\ vrUnchangedOpts
    /\ Frame("readiness")

\* An iteration of the loop whose comparison is within the threshold and
\* completes the run of stable frames: return Date.now() - startTime.
vrStableReturn ==
    /\ vrPc = "loop"
    /\ vrElapsed < vrOpts.maxWaitMs
    /\ \E shot \in Screenshots, took \in ShotMs :
          LET at == vrElapsed + vrOpts.intervalMs
              diff == compareScreenshots(vrPrev, shot)
          IN  /\ diffWithin(diff, vrOpts.threshold)
              /\ vrStable + 1 >= vrOpts.consecutiveStable
              /\ vrShots' = Append(vrShots, [buf |-> shot, at |-> at])
              /\ vrCompared' = Append(vrCompared,
                    [a |-> Len(vrShots), b |-> Len(vrShots) + 1, diff |-> diff,
                     stableCount |-> vrStable + 1])
              /\ vrStable' = vrStable + 1
              /\ vrElapsed' = at + took
              /\ vrReturned' = [defined |-> TRUE, value |-> at + took]
    /\ vrPc' = "returned"
    /\ UNCHANGED vrPrev
    /\ vrUnchangedOpts
    /\ Frame("readiness")

\* An iteration whose comparison is within the threshold, with the run of
\* stable frames not yet complete.
vrStableContinue ==
    /\ vrPc = "loop"
    /\ vrElapsed < vrOpts.maxWaitMs
    /\ \E shot \in Screenshots, took \in ShotMs :
          LET at == vrElapsed + vrOpts.intervalMs
              diff == compareScreenshots(vrPrev, shot)
          IN  /\ diffWithin(diff, vrOpts.threshold)
              /\ vrStable + 1 < vrOpts.consecutiveStable
              /\ vrShots' = Append(vrShots, [buf |-> shot, at |-> at])
              /\ vrCompared' = Append(vrCompared,
                    [a |-> Len(vrShots), b |-> Len(vrShots) + 1, diff |-> diff,
                     stableCount |-> vrStable + 1])
              /\ vrStable' = vrStable + 1
              /\ vrPrev' = shot
              /\ vrElapsed' = at + took
    /\ UNCHANGED << vrPc, vrReturned >>
    /\ vrUnchangedOpts
    /\ Frame("readiness")

\* An iteration whose comparison is above the threshold: stableCount = 0.
vrUnstable ==
    /\ vrPc = "loop"
    /\ vrElapsed < vrOpts.maxWaitMs
    /\ \E shot \in Screenshots, took \in ShotMs :
          LET at == vrElapsed + vrOpts.intervalMs
              diff == compareScreenshots(vrPrev, shot)
          IN  /\ ~diffWithin(diff, vrOpts.threshold)
              /\ vrShots' = Append(vrShots, [buf |-> shot, at |-> at])
              /\ vrCompared' = Append(vrCompared,
                    [a |-> Len(vrShots), b |-> Len(vrShots) + 1, diff |-> diff,
                     stableCount |-> 0])
              /\ vrStable' = 0
              /\ vrPrev' = shot
              /\ vrElapsed' = at + took
    /\ UNCHANGED << vrPc, vrReturned >>
    /\ vrUnchangedOpts
    /\ Frame("readiness")

\* The loop's condition is false: return Date.now() - startTime.
vrFallback ==
    /\ vrPc = "loop"
    /\ ~(vrElapsed < vrOpts.maxWaitMs)
    /\ vrReturned' = [defined |-> TRUE, value |-> vrElapsed]
    /\ vrPc' = "returned"
    /\ UNCHANGED << vrElapsed, vrStable, vrPrev, vrShots, vrCompared >>
    /\ vrUnchangedOpts
    /\ Frame("readiness")

\* ------------------------------------------------------------------------
\* Claims about waitForVisualReadiness
\* ------------------------------------------------------------------------

\* Comparison k was within the threshold.
WasStable(k) ==
    vrCompared[k].diff.num * vrOpts.threshold.den
        <= vrOpts.threshold.num * vrCompared[k].diff.den

\* C29: the function returns before the maximum wait only when the last
\* consecutiveStable comparisons were each within the threshold; a
\* comparison above the threshold puts the stable count back to 0; every
\* comparison is between two consecutive screenshots; and once the elapsed
\* time has reached maxWaitMs no further screenshot is taken and the
\* function returns the elapsed time.
C29_ReadinessLoop ==
    /\ (vrReturned.defined /\ vrReturned.value < vrOpts.maxWaitMs) =>
          /\ Len(vrCompared) >= vrOpts.consecutiveStable
          /\ \A k \in DOMAIN vrCompared :
                k > Len(vrCompared) - vrOpts.consecutiveStable => WasStable(k)
    /\ \A k \in DOMAIN vrCompared :
          /\ ~WasStable(k) => vrCompared[k].stableCount = 0
          /\ vrCompared[k].a = k /\ vrCompared[k].b = k + 1
    /\ \A k \in DOMAIN vrShots : k > 1 => vrShots[k].at < vrOpts.maxWaitMs
    /\ vrReturned.defined => vrReturned.value = vrElapsed

\* ------------------------------------------------------------------------
\* theme.ts: buildThemeFilter
\* ------------------------------------------------------------------------

\* Math.round(n / d) for d > 0: halves go up.
roundQuot(n, d) == (2 * n + d) \div (2 * d)

\* x % 2 === 0 ? x : x - 1
evenDown(x) == IF x % 2 = 0 THEN x ELSE x - 1

\* x % 2 === 0 ? x : x + 1
evenUp(x) == IF x % 2 = 0 THEN x ELSE x + 1

\* theme.padding is a fraction; it is kept in thousandths.
PaddingUnit == 1000

\* theme.windowChrome ? 36 : 0
barHeight(theme) == IF theme.windowChrome THEN 36 ELSE 0

\* The sizes and offsets buildThemeFilter computes.
themeGeometry(outputWidth, outputHeight, theme) ==
    LET barH == barHeight(theme)
        windowW == evenDown(roundQuot(outputWidth * (PaddingUnit - 2 * theme.padding),
                                      PaddingUnit))
        contentH == evenDown(roundQuot(windowW * outputHeight, outputWidth))
        windowH == evenUp(contentH + barH)
    IN  [barH |-> barH, windowW |-> windowW, contentH |-> contentH, windowH |-> windowH,
         offsetX |-> roundQuot(outputWidth - windowW, 2),
         offsetY |-> roundQuot(outputHeight - windowH, 2)]

\* One filter of the theme's chain: its name, the label it writes and its
\* numbers.
ThemeTok(kind, out, nums) == Tok(kind, out, 0, nums)

\* The chain: scale, title bar and vstack (or copy), rounded corners,
\* background, shadow (or none), overlay.
buildThemeFilter(inputLabel, outputWidth, outputHeight, theme) ==
    LET g == themeGeometry(outputWidth, outputHeight, theme)
        window == IF g.barH > 0
                  THEN << ThemeTok("color", "_tbar", << g.windowW, g.barH >>),
                          ThemeTok("vstack", "_twindow", << >>) >>
                  ELSE << ThemeTok("copy", "_twindow", << >>) >>
        placed == IF theme.shadow
                  THEN << ThemeTok("color", "_tshadow_src", << g.windowW, g.windowH >>),
                          ThemeTok("boxblur", "_tshadow_blur", << 18, 10 >>),
                          ThemeTok("overlay", "_tshadowed", << g.offsetX + 4, g.offsetY + 8 >>),
                          ThemeTok("overlay", "themed", << g.offsetX, g.offsetY >>) >>
                  ELSE << ThemeTok("overlay", "themed", << g.offsetX, g.offsetY >>) >>
    IN  [filters |->
            << Label(inputLabel), ThemeTok("scale", "_tcontent", << g.windowW, g.contentH >>) >>
            \o window
            \o << ThemeTok("geq", "_trounded", << theme.radius >>),
                  ThemeTok("color", "_tbg", << outputWidth, outputHeight >>) >>
            \o placed,
         outputLabel |-> "themed"]

buildThemeFilterCall ==
    /\ ~thResult.defined
    /\ thResult' = [defined |-> TRUE,
                    value |-> buildThemeFilter("scaled", thOutput.width, thOutput.height, thTheme)]
    /\ UNCHANGED << thOutput, thTheme >>
    /\ Frame("theme")

\* ------------------------------------------------------------------------
\* Claims about buildThemeFilter
\* ------------------------------------------------------------------------

\* The numbers of the filter that writes a label.
NumsOf(out) ==
    LET f == thResult.value.filters
        k == CHOOSE k \in DOMAIN f : f[k].kind # "label" /\ f[k].name = out
    IN  f[k].frac

\* C30: for every output size and theme with padding >= 0, with or without
\* window chrome: the window's width and the content's height are even, the
\* window's height is the content's height plus the title bar's and even,
\* the content's height follows from the window's width by the output's
\* aspect ratio, and the window lies inside the output frame (offsets >= 0,
\* width and height at most the output's).
C30_ThemeGeometryConsistent ==
    thResult.defined =>
        LET windowW == NumsOf("_tcontent")[1]
            contentH == NumsOf("_tcontent")[2]
            barH == IF thTheme.windowChrome THEN NumsOf("_tbar")[2] ELSE 0
            windowH == contentH + barH
            offsetX == NumsOf("themed")[1]
            offsetY == NumsOf("themed")[2]
        IN  /\ windowW % 2 = 0
            /\ contentH % 2 = 0
            /\ windowH % 2 = 0
            /\ thTheme.shadow => NumsOf("_tshadow_src") = << windowW, windowH >>
            \* contentH is the even number at or just below windowW * H / W, rounded
            /\ 2 * thOutput.width * contentH <= 2 * windowW * thOutput.height + thOutput.width
            /\ 2 * thOutput.width * (contentH + 2) > 2 * windowW * thOutput.height - thOutput.width
            /\ offsetX >= 0 /\ offsetY >= 0
            /\ windowW <= thOutput.width
            /\ windowH <= thOutput.height

\* ------------------------------------------------------------------------
\* Specifications
\* ------------------------------------------------------------------------

\* record() passes config.segments.map((s) => s.transition), one entry per
\* segment, or undefined when nothing is configured anywhere.
TransitionInit ==
    /\ segmentDurations \in SeqsUpTo(Durations, MaxSegments)
    /\ globalTransition \in OptTransitions
    /\ perSegmentTransitions \in
          { [given |-> FALSE, items |-> << >>] } \cup
          { [given |-> TRUE, items |-> p] : p \in [1..Len(segmentDurations) -> OptTransitions] }
    /\ pc = "start"
    /\ loopI = 0
    /\ filterChain = << >>
    /\ prevLabel = InputLabel(0)
    /\ cumulativeDuration = 0
    /\ result = [defined |-> FALSE, chain |-> << >>]
    /\ total = [defined |-> FALSE, value |-> 0]
    /\ IdleExcept("transitions")

TransitionNext ==
    \/ btfReturnUndefined
    \/ btfEnterLoop
    \/ btfXfade
    \/ btfConcat
    \/ btfReturn
    \/ ComputeTotal

TransitionSpec == TransitionInit /\ [][TransitionNext]_vars

\* Trim offsets explored: none, and offsets below, at and above the raw
\* durations the outputs explored denote.
TrimOffsets == {0, 500, 1500, 5000}

DurationInit ==
    /\ probe \in [exit : {0, 1}, output : SeqsUpTo(Chars, MaxOutputLen)]
    /\ trimSec \in TrimOffsets
    /\ segPc = "call"
    /\ segDuration = 0
    /\ recordPc = "durations"
    /\ IdleExcept("duration")

DurationNext ==
    \/ gsdReturn
    \/ gsdThrow
    \/ recordContinue
    \/ recordReject

DurationSpec == DurationInit /\ [][DurationNext]_vars

ChunkInit ==
    /\ text \in SeqsUpTo(ScriptChars, MaxTextLen)
    /\ maxWords \in 1..MaxWordsPerChunk
    /\ chunks = [defined |-> FALSE, value |-> << >>]
    /\ IdleExcept("chunks")

ChunkNext == splitIntoChunksCall

ChunkSpec == ChunkInit /\ [][ChunkNext]_vars

\* Narration scripts explored: none, a blank one, one chunk, three chunks.
Scripts ==
    { << >>, << " " >>, << "a" >>, << "a", ".", "b", ".", "a", "." >> }

\* Segment durations explored for subtitles: a segment of no length, and
\* one that three chunks do not divide into whole milliseconds.
SubDurations == {0, 4000, 5000}

SubtitleInit ==
    /\ subSegments \in SeqsUpTo([narrationScript : Scripts, duration : SubDurations],
                                MaxSegments)
    /\ subPc = "loop"
    /\ subI = 0
    /\ entries = << >>
    /\ cumulativeSec = 0
    /\ index = 1
    /\ IdleExcept("subtitles")

SubtitleNext ==
    \/ bseSegment
    \/ bseReturn

SubtitleSpec == SubtitleInit /\ [][SubtitleNext]_vars

\* Whole seconds explored: zero, the last second of a minute and of an
\* hour, and times of several hours.
WholeSeconds == {0, 1, 59, 60, 65, 3599, 3600, 3661, 7322}

\* Fractions of a second explored, in tenths of a millisecond: .0000,
\* .0001, .0004, .0625 (62.5 ms, a half that a double holds exactly),
\* .1, .25, .5, .9994, .9996 and .9999.
SecondFractions == {0, 1, 4, 625, 1000, 2500, 5000, 9994, 9996, 9999}

TimestampInit ==
    /\ tsSeconds \in { w * UnitsPerSecond + f : w \in WholeSeconds, f \in SecondFractions }
    /\ tsOutput = [defined |-> FALSE, value |-> << >>]
    /\ IdleExcept("timestamp")

TimestampNext == formatSrtTimestampCall

TimestampSpec == TimestampInit /\ [][TimestampNext]_vars

\* The characters of an overlay text explored: a letter and every character
\* escapeFFmpegText replaces.
TextChars == {"a", "\\", "'", ":", "[", "]", ";", "%"}

EscapeInit ==
    /\ escInput \in SeqsUpTo(TextChars, MaxEscapeLen)
    /\ escOutput = [defined |-> FALSE, value |-> << >>]
    /\ IdleExcept("escape")

EscapeNext == escapeFFmpegTextCall

EscapeSpec == EscapeInit /\ [][EscapeNext]_vars

\* Overlay bands explored: two texts, the default and an odd height, the
\* default and a given font size.
Bands ==
    { [present |-> TRUE, text |-> t, height |-> h, fontSize |-> s] :
        t \in { << "a" >>, << "a", ":", "b" >> },
        h \in { NotGiven, [given |-> TRUE, value |-> 81] },
        s \in { NotGiven, [given |-> TRUE, value |-> 20] } }

OptBands == Bands \cup {NoBand}

\* encode() passes "scaled", or "subtitled" when subtitles are burned in.
PostScaleLabels == {"scaled", "subtitled"}

OverlayInit ==
    /\ ovOverlays \in
          {NoOverlays} \cup
          { [given |-> TRUE, top |-> t, bottom |-> b] : t \in OptBands, b \in OptBands }
    /\ ovInputLabel \in PostScaleLabels
    /\ ovResult = [defined |-> FALSE,
                   value |-> [filters |-> << >>, outputLabel |-> ""]]
    /\ IdleExcept("overlays")

OverlayNext == buildOverlayFiltersCall

OverlaySpec == OverlayInit /\ [][OverlayNext]_vars

\* encode's inputs explored.  The trim offsets: one that toFixed(1) rounds,
\* one it keeps, and none.
EncTrimSec(k) == IF k = 1 THEN 1250 ELSE IF k = 2 THEN 500 ELSE 0

EncGlobalTransitions == { Undefined, [type |-> "fade", duration |-> 500] }
EncOwnTransitions == { Undefined, [type |-> "wipeleft", duration |-> 1000] }

EncBand == [present |-> TRUE, text |-> << "a" >>, height |-> NotGiven, fontSize |-> NotGiven]

EncodeInit ==
    /\ encSegments \in { [k \in 1..n |-> [trimSec |-> EncTrimSec(k)]] : n \in 1..MaxSegments }
    /\ encFormat \in {"mp4", "webm", "both"}
    /\ encOverlays \in
          { NoOverlays,
            [given |-> TRUE, top |-> EncBand, bottom |-> NoBand],
            [given |-> TRUE, top |-> NoBand, bottom |-> EncBand],
            [given |-> TRUE, top |-> EncBand, bottom |-> EncBand] }
    /\ encAudioPath \in BOOLEAN
    /\ encTransitions \in EncGlobalTransitions
    /\ encPerSegmentTransitions \in
          { [given |-> FALSE, items |-> << >>] } \cup
          { [given |-> TRUE, items |-> p] : p \in [1..Len(encSegments) -> EncOwnTransitions] }
    /\ encSegmentDurations \in
          { [given |-> FALSE, items |-> << >>],
            [given |-> TRUE, items |-> [k \in 1..Len(encSegments) |-> 4000]] }
    /\ encSubtitlesSrtPath \in BOOLEAN
    /\ encSubtitlesBurn \in BOOLEAN
    /\ encTheme \in BOOLEAN
    /\ encPc = "pending"
    /\ encFilterComplex = << >>
    /\ encInvocations = << >>
    /\ encResults = << >>
    /\ encOutcome = [kind |-> "none", files |-> << >>]
    /\ IdleExcept("encode")

EncodeNext ==
    \/ encCallTransitions
    \/ btfReturnUndefined
    \/ btfEnterLoop
    \/ btfXfade
    \/ btfConcat
    \/ btfReturn
    \/ encBuildGraph
    \/ encBuildGraphPlain
    \/ encMp4Succeeds
    \/ encMp4Fails
    \/ encMp4Skipped
    \/ encWebmSucceeds
    \/ encWebmFails
    \/ encWebmSkipped
    \/ encReturn

EncodeSpec == EncodeInit /\ [][EncodeNext]_vars

Keys == {NoKey} \cup { [given |-> TRUE, kind |-> k] : k \in KeyKinds }

LicenseInit ==
    /\ licConfig \in
          { [format |-> f, flags |-> s] :
              f \in {"mp4", "webm", "both"},
              s \in { t \in SUBSET ConfigFlags : Cardinality(t) <= MaxConfigFlags } }
    /\ licKeyArg \in Keys
    /\ licEnvKey \in Keys
    /\ licEnvCI \in BOOLEAN
    /\ licPc = "call"
    /\ proFeatures = << >>
    /\ IdleExcept("license")

LicenseNext ==
    \/ enforceReturnsFree
    \/ enforceThrowsNoKey
    \/ enforceThrowsInvalidKey
    \/ enforceReturnsLicensed

LicenseSpec == LicenseInit /\ [][LicenseNext]_vars

\* The scripts a segment comes in with.
ScriptsIn == {NoScript, Script(""), Script("manual")}

\* The segment configs explored: none, one without a narration block, and
\* every narration block of auto and script.
SegmentConfigs ==
    {NoSegmentConfig, NoNarrationBlock} \cup
    { [present |-> TRUE, narration |-> TRUE, auto |-> a, script |-> s] :
        a \in {"undefined", "false", "true"}, s \in ScriptsIn }

AutoNarrateInit ==
    /\ \E n \in 0..MaxNarrated :
          /\ anScriptsIn \in [1..n -> ScriptsIn]
          /\ anConfigs \in [1..n -> SegmentConfigs]
    /\ anSegments = anScriptsIn
    /\ anAutoAll \in BOOLEAN
    /\ anI = 1
    /\ anPc = "loop"
    /\ aiCalls = << >>
    /\ IdleExcept("autonarrate")

AutoNarrateNext ==
    \/ anSkipScripted
    \/ anSkipNotRequested
    \/ anGenerate
    \/ anGenerateThrows
    \/ anReturn

AutoNarrateSpec == AutoNarrateInit /\ [][AutoNarrateNext]_vars

\* The segment configs of a recording: no narration block, auto alone, a
\* manual script alone, both.
RecordSegmentConfigs ==
    {NoNarrationBlock} \cup
    { [present |-> TRUE, narration |-> TRUE, auto |-> a, script |-> s] :
        a \in {"undefined", "true"}, s \in {NoScript, Script("manual")} }

RecordInit ==
    /\ recConfig \in [narration : {"none", "present", "auto"},
                      subtitles : BOOLEAN,
                      renderer : {"ffmpeg", "remotion"}]
    /\ \E n \in 0..MaxNarrated :
          /\ recSegmentConfigs \in [1..n -> RecordSegmentConfigs]
          /\ recTrimSec = [ i \in 1..n |-> EncTrimSec(i) ]
    \* recordSegment: narrationScript: segment.narration?.script
    /\ recScripts = [ i \in DOMAIN recSegmentConfigs |-> recSegmentConfigs[i].script ]
    /\ recNarrateCalled = FALSE
    /\ recPhase = "recorded"
    /\ recAudio = FALSE
    /\ recDurations = NotComputed
    /\ recSubtitles = NotComputed
    /\ recEncoded = NotComputed
    /\ IdleExcept("record")

RecordNext ==
    \/ recNoSegments
    \/ recCallAutoNarrate
    \/ recSkipAutoNarrate
    \/ anSkipScripted
    \/ anSkipNotRequested
    \/ anGenerate
    \/ anGenerateThrows
    \/ anReturn
    \/ recAutoNarrateDone
    \/ recAutoNarrateRejects
    \/ recNarrationTts
    \/ recNarrationTtsRejects
    \/ recSkipTts
    \/ recComputeDurations
    \/ recBuildSubtitles
    \/ recSkipSubtitles
    \/ recEncode
    \/ recEncodeThrows

RecordSpec == RecordInit /\ [][RecordNext]_vars

ScriptSplitInit ==
    /\ ssText \in SeqsUpTo(ScriptChars, MaxTextLen)
    /\ ssMaxChars \in 2..MaxScriptChars
    /\ ssChunks = [defined |-> FALSE, value |-> << >>]
    /\ IdleExcept("script")

ScriptSplitNext == splitScriptCall

ScriptSplitSpec == ScriptSplitInit /\ [][ScriptSplitNext]_vars

\* A recording's subtitles and its transitions: buildSubtitleEntries and
\* the transition planner are given the same segment durations.
TimelineInit ==
    /\ subSegments \in SeqsUpTo([narrationScript : { << >>, << "a" >> },
                                 duration : {3000, 4000}], MaxSegments)
    /\ subPc = "loop"
    /\ subI = 0
    /\ entries = << >>
    /\ cumulativeSec = 0
    /\ index = 1
    /\ segmentDurations = [ k \in DOMAIN subSegments |-> subSegments[k].duration ]
    /\ globalTransition \in EncGlobalTransitions
    /\ perSegmentTransitions \in
          { [given |-> FALSE, items |-> << >>] } \cup
          { [given |-> TRUE, items |-> p] : p \in [1..Len(segmentDurations) -> EncOwnTransitions] }
    /\ pc = "start"
    /\ loopI = 0
    /\ filterChain = << >>
    /\ prevLabel = InputLabel(0)
    /\ cumulativeDuration = 0
    /\ result = [defined |-> FALSE, chain |-> << >>]
    /\ total = [defined |-> FALSE, value |-> 0]
    /\ IdleExceptOf({"subtitles", "transitions"})

TimelineNext ==
    \/ bseSegment
    \/ bseReturn
    \/ btfReturnUndefined
    \/ btfEnterLoop
    \/ btfXfade
    \/ btfConcat
    \/ btfReturn
    \/ ComputeTotal

TimelineSpec == TimelineInit /\ [][TimelineNext]_vars

\* The options explored: the default interval, three limits (one below the
\* interval), exact equality and half the bytes as threshold.
ReadinessInit ==
    /\ vrOpts \in [intervalMs : {200},
                   threshold : { Rat(0, 1), Rat(1, 2) },
                   maxWaitMs : {100, 300, 600},
                   consecutiveStable : 1..MaxStable]
    /\ vrPc = "start"
    /\ vrElapsed = 0
    /\ vrStable = 0
    /\ vrPrev = << >>
    /\ vrShots = << >>
    /\ vrCompared = << >>
    /\ vrReturned = [defined |-> FALSE, value |-> 0]
    /\ IdleExcept("readiness")

ReadinessNext ==
    \/ vrFirstScreenshot
    \/ vrStableReturn
    \/ vrStableContinue
    \/ vrUnstable
    \/ vrFallback

ReadinessSpec == ReadinessInit /\ [][ReadinessNext]_vars

\* Output sizes explored: the default viewport, 16:9, a vertical one and
\* one with odd sides.
OutputSizes ==
    { [width |-> 1280, height |-> 800], [width |-> 1920, height |-> 1080],
      [width |-> 1080, height |-> 1920], [width |-> 201, height |-> 101] }

\* Paddings explored, in thousandths: none, 1 %, the showcase theme's 8 %,
\* the default 10 %, 25 %.
Paddings == {0, 10, 80, 100, 250}

ThemeInit ==
    /\ thOutput \in OutputSizes
    /\ thTheme \in [padding : Paddings, radius : {12, 16}, shadow : BOOLEAN,
                    windowChrome : BOOLEAN]
    /\ thResult = [defined |-> FALSE, value |-> [filters |-> << >>, outputLabel |-> ""]]
    /\ IdleExcept("theme")

ThemeNext == buildThemeFilterCall

ThemeSpec == ThemeInit /\ [][ThemeNext]_vars

====
